---------------------------- MODULE Spec2Model ----------------------------
(***************************************************************************)
(* A model of the pong-maybe repository: the hand-rolled neural-network    *)
(* controller (src/js/ai.js) driven by the match loop (src/js/game.js,     *)
(* ball.js, paddle.js), the first single-file version (src/game.js) and    *)
(* the TensorFlow-backed controller of src/audio-system.js.                *)
(*                                                                         *)
(* JavaScript Numbers are modelled in fixed point: the integer n stands    *)
(* for the real n / Scale.  NaN is a value of its own.                     *)
(***************************************************************************)
EXTENDS Integers, Sequences, FiniteSets, TLC

(***************************************************************************)
(* Numbers                                                                 *)
(***************************************************************************)
\* one unit of the fixed-point representation of a JavaScript Number
Scale == 1000

\* the Number value NaN (also what arithmetic on undefined yields)
NaN == -999999999

Abs(x) == IF x < 0 THEN -x ELSE x

Max2(a, b) == IF a >= b THEN a ELSE b

Min2(a, b) == IF a <= b THEN a ELSE b

\* a * b of two fixed-point numbers
Mul(a, b) == (a * b) \div Scale

\* a whole number of units (pixels, plain counts) as a fixed-point number
Fix(n) == n * Scale

\* the integer square root of a natural number
ISqrt(v) == CHOOSE k \in 0..(2 * Scale) : k * k <= v /\ (k + 1) * (k + 1) > v

\* F applied to the value of x, with x evaluated once (a const binding)
Const(x, F(_)) == CHOOSE out \in {F(v) : v \in {x}} : TRUE

RECURSIVE SumSeq(_, _)
\* s[1] + ... + s[n]
SumSeq(s, n) == IF n = 0 THEN 0 ELSE s[n] + SumSeq(s, n - 1)

RECURSIVE MaxSeq(_, _)
\* Math.max(...s) over the first n entries of a non-empty s
MaxSeq(s, n) == IF n = 1 THEN s[1] ELSE Max2(s[n], MaxSeq(s, n - 1))

\* Math.exp(-f) for a fraction 0 <= f < 1: the series 1 - f + f^2/2! - ...
ExpFrac(f) ==
    LET t2 == (f * f) \div (2 * Scale)
        t3 == (t2 * f) \div (3 * Scale)
        t4 == (t3 * f) \div (4 * Scale)
        t5 == (t4 * f) \div (5 * Scale)
    IN  Scale - f + t2 - t3 + t4 - t5

\* Math.exp(-n) for n = 0, 1, 2, ... in fixed point
ExpInt == <<1000, 368, 135, 50, 18, 7, 2, 1>>

\* Math.exp(d) for d <= 0
Exp(d) ==
    LET x == -d
        n == x \div Scale
        f == x % Scale
    IN  IF n >= Len(ExpInt) THEN 0 ELSE (ExpInt[n + 1] * ExpFrac(f)) \div Scale

(***************************************************************************)
(* AIController (src/js/ai.js): the network                                *)
(***************************************************************************)
InputCount == 4

Hidden1 == 16

Hidden2 == 8

ActionCount == 3

\* this.learningRate = 0.01
LearningRate == 10

maxTrainingData == 200

\* reward()/punish() skip training below this many samples
MinSamples == 20

\* trainOnRecentData's own lower limit
MinTrain == 10

\* trainOnRecentData trains on trainingData.slice(-30)
RecentSlice == 30

\* number of different random initialisations the model draws from
NumSeeds == 1

\* Math.random() * 2 - 1, drawn deterministically from (seed, i, j): -1 .. 1
Rand(seed, i, j) == ((((i * 7 + j * 13 + seed * 5) % 21) - 10) * Scale) \div 10

\* randomMatrix(rows, cols): Xavier initialisation
randomMatrix(rows, cols, seed) ==
    LET amp == ISqrt((2 * Scale * Scale) \div rows)
    IN  [i \in 1..rows |-> [j \in 1..cols |-> Mul(Rand(seed, i, j), amp)]]

\* randomArray(size): (Math.random() * 2 - 1) * 0.1
randomArray(size, seed) == [j \in 1..size |-> Rand(seed, j, size) \div 10]

createNetwork(seed) ==
    << [weights |-> randomMatrix(InputCount, Hidden1, seed),
        biases |-> randomArray(Hidden1, seed), activation |-> "relu"],
       [weights |-> randomMatrix(Hidden1, Hidden2, seed + 1),
        biases |-> randomArray(Hidden2, seed + 1), activation |-> "relu"],
       [weights |-> randomMatrix(Hidden2, ActionCount, seed + 2),
        biases |-> randomArray(ActionCount, seed + 2), activation |-> "softmax"] >>

relu(x) == Max2(0, x)

\* a softmax that returns the exponentials without dividing by their sum
softmaxRaw(values) ==
    Const(MaxSeq(values, Len(values)),
          LAMBDA max : [k \in 1..Len(values) |-> Exp(values[k] - max)])

softmax(values) ==
    LET Exps(max) == [k \in 1..Len(values) |-> Exp(values[k] - max)]
        Norm(exps) == Const(SumSeq(exps, Len(exps)),
                            LAMBDA sum : [k \in 1..Len(exps) |->
                                            (exps[k] * Scale) \div sum])
    IN  Const(Const(MaxSeq(values, Len(values)), Exps), Norm)

\* the value a failed call yields: the exception thrown
TypeError == [error |-> "TypeError"]

\* a value returned normally
Ok(v) == [error |-> "", v |-> v]

RECURSIVE Dot(_, _, _, _)
\* the inner loop of matrixMultiply: the sum of input[i] * weights[i][j]
Dot(input, weights, j, n) ==
    IF n = 0 THEN 0 ELSE input[n] * weights[n][j] + Dot(input, weights, j, n - 1)

\* matrixMultiply(input, weights, biases): throws a TypeError when weights[i]
\* is undefined for some i < input.length, otherwise returns one sum per
\* column of weights[0]; a missing bias makes the sum NaN
matrixMultiply(input, weights, biases) ==
    IF Len(input) > Len(weights)
    THEN TypeError
    ELSE Ok([j \in 1..Len(weights[1]) |->
              IF j > Len(biases)
              THEN NaN
              ELSE biases[j] + Dot(input, weights, j, Len(input)) \div Scale])

RECURSIVE forwardFrom(_, _, _, _)
\* the loop of forwardPass from layer i on
forwardFrom(net, i, activation, activations) ==
    IF i > Len(net)
    THEN Ok([output |-> activation, activations |-> activations, net |-> net])
    ELSE LET layer == net[i]
             Activate(z) ==
                 IF z.error # ""
                 THEN z
                 ELSE Ok(IF layer.activation = "relu"
                         THEN [k \in 1..Len(z.v) |-> relu(z.v[k])]
                         ELSE softmax(z.v))
             Rest(a) ==
                 IF a.error # ""
                 THEN a
                 ELSE forwardFrom(net, i + 1, a.v, Append(activations, a.v))
         IN  Const(Const(matrixMultiply(activation, layer.weights, layer.biases),
                         Activate),
                   Rest)

\* a forwardPass that keeps its output in the last layer's biases
forwardPassStoring(net, inputs) ==
    Const(forwardFrom(net, 1, inputs, <<inputs>>),
          LAMBDA r : IF r.error # "" THEN r
                     ELSE Ok([r.v EXCEPT !.net[Len(net)].biases = r.v.output]))

\* forwardPass(inputs): { output, activations } and this.network afterwards
\* (the code writes only to locals), or the exception thrown
forwardPass(net, inputs) == forwardFrom(net, 1, inputs, <<inputs>>)

(***************************************************************************)
(* AIController: training                                                  *)
(***************************************************************************)
\* an updateLayer that also pushes a bias for a new unit
updateLayerOverrun(layer, prevActivation, error) ==
    [layer EXCEPT
       !.biases =
          Append([j \in 1..Len(layer.biases) |->
                    IF j > Len(error) THEN layer.biases[j]
                    ELSE layer.biases[j] + (LearningRate * error[j]) \div Scale],
                 0),
       !.weights =
          [i \in 1..Len(layer.weights) |->
             IF i > Len(prevActivation) THEN layer.weights[i]
             ELSE [j \in 1..Len(layer.weights[i]) |->
                     IF j > Len(error) THEN layer.weights[i][j]
                     ELSE layer.weights[i][j]
                          + (LearningRate * error[j] * prevActivation[i])
                               \div (Scale * Scale)]]]

\* one layer after the two nested loops of updateWeights; writing past the
\* end of a JavaScript array lengthens it, and undefined + x is NaN
updateLayer(layer, prevActivation, error) ==
    [layer EXCEPT
       !.biases =
          [j \in 1..Max2(Len(layer.biases), Len(error)) |->
             IF j > Len(error) THEN layer.biases[j]
             ELSE IF j > Len(layer.biases) THEN NaN
             ELSE layer.biases[j] + (LearningRate * error[j]) \div Scale],
       !.weights =
          [i \in 1..Len(layer.weights) |->
             IF i > Len(prevActivation) THEN layer.weights[i]
             ELSE [j \in 1..Max2(Len(layer.weights[i]), Len(error)) |->
                     IF j > Len(error) THEN layer.weights[i][j]
                     ELSE IF j > Len(layer.weights[i]) THEN NaN
                     ELSE layer.weights[i][j]
                          + (LearningRate * error[j] * prevActivation[i])
                               \div (Scale * Scale)]]]

RECURSIVE Back(_, _, _)
\* the sum over j of error[j] * row[j]
Back(error, row, n) ==
    IF n = 0 THEN 0 ELSE error[n] * row[n] + Back(error, row, n - 1)

\* nextError after the loops: the sum over j of error[j] * weights[i][j], read
\* after weights[i][j] was updated
propagate(updated, prevActivation, error) ==
    [i \in 1..Len(prevActivation) |->
       Back(error, updated.weights[i], Len(error)) \div Scale]

\* error after one pass of the loop of updateWeights over layer l: nextError
\* of the two nested loops, then the derivative gate, which the code
\* applies when the layer just updated is a ReLU layer
handedDown(layer, l, activations, error, updated) ==
    Const(IF l > 1
          THEN propagate(updated, activations[l], error)
          ELSE [i \in 1..Len(activations[l]) |-> 0],
          LAMBDA summed :
            IF l > 1 /\ layer.activation = "relu"
            THEN [i \in 1..Len(summed) |->
                    IF activations[l][i] > 0 THEN summed[i] ELSE 0]
            ELSE summed)

RECURSIVE updateFrom(_, _, _, _)
\* the loop of updateWeights from layer l (1-based) down to the first
updateFrom(net, l, activations, error) ==
    IF l = 0
    THEN Ok(net)
    ELSE LET layer == net[l]
             prevActivation == activations[l]
         IN  IF Len(prevActivation) > Len(layer.weights)
             THEN TypeError
             ELSE LET Rest(updated) ==
                          Const(handedDown(layer, l, activations, error, updated),
                                LAMBDA nextError :
                                  updateFrom([net EXCEPT ![l] = updated], l - 1,
                                             activations, nextError))
                  IN  Const(updateLayer(layer, prevActivation, error), Rest)

\* updateWeights(activations, finalError): the network afterwards
updateWeights(net, activations, finalError) ==
    updateFrom(net, Len(net), activations, finalError)

RECURSIVE trainFrom(_, _, _, _)
\* the for-of loop of trainOnRecentData over recentData[k..]
trainFrom(net, recentData, k, rewardFactor) ==
    IF k > Len(recentData)
    THEN Ok(net)
    ELSE LET data == recentData[k]
             Learn(fp) ==
                 IF fp.error # ""
                 THEN fp
                 ELSE updateWeights(fp.v.net, fp.v.activations,
                                    [i \in 1..ActionCount |->
                                       Mul(Fix(data.action[i]) - fp.v.output[i],
                                           rewardFactor)])
             Rest(upd) ==
                 IF upd.error # ""
                 THEN upd
                 ELSE trainFrom(upd.v, recentData, k + 1, rewardFactor)
         IN  Const(Const(forwardPass(net, data.inputs), Learn), Rest)

\* trainingData.slice(-n)
SliceLast(s, n) == SubSeq(s, Max2(1, Len(s) - n + 1), Len(s))

\* a trainOnRecentData that takes its samples out of the buffer with splice
trainOnRecentDataConsuming(ai, rewardFactor) ==
    IF Len(ai.trainingData) < MinTrain
    THEN Ok(ai)
    ELSE Const(trainFrom(ai.network, SliceLast(ai.trainingData, RecentSlice),
                         1, rewardFactor),
               LAMBDA r : IF r.error # "" THEN r
                          ELSE Ok([network |-> r.v,
                                   trainingData |->
                                       SubSeq(ai.trainingData, 1,
                                              Len(ai.trainingData) - RecentSlice)]))

\* trainOnRecentData(rewardFactor) on the controller ai = [network,
\* trainingData]: the controller afterwards, or the exception thrown
trainOnRecentData(ai, rewardFactor) ==
    IF Len(ai.trainingData) < MinTrain
    THEN Ok(ai)
    ELSE Const(trainFrom(ai.network, SliceLast(ai.trainingData, RecentSlice),
                         1, rewardFactor),
               LAMBDA r : IF r.error # "" THEN r
                          ELSE Ok([ai EXCEPT !.network = r.v]))

\* a reward() without its own sample-count guard
rewardUnguarded(ai) == trainOnRecentData(ai, Scale)

\* reward(): trainOnRecentData(1.0) unless fewer than 20 samples are stored
reward(ai) ==
    IF Len(ai.trainingData) < MinSamples
    THEN Ok(ai)
    ELSE trainOnRecentData(ai, Scale)

\* punish(): trainOnRecentData(-0.5) unless fewer than 20 samples are stored
punish(ai) ==
    IF Len(ai.trainingData) < MinSamples
    THEN Ok(ai)
    ELSE trainOnRecentData(ai, -(Scale \div 2))

(***************************************************************************)
(* The playing field, Paddle (src/js/paddle.js) and Ball (ball.js)         *)
(***************************************************************************)
\* canvas.width and canvas.height of the page's canvas element, in pixels
CanvasWidth == 120

CanvasHeight == 160

PaddleWidth == 10

PaddleHeight == 80

PaddleSpeed == 5

BallRadius == 8

\* |Ball.reset's speedX|
BallSpeed == 5

\* new Paddle(x, y, isAI)
NewPaddle(x, y) == [x |-> x, y |-> y, velocity |-> 0]

\* Paddle.update(canvasHeight)
PaddleUpdate(p) ==
    LET y1 == p.y + p.velocity
        y2 == IF y1 < 0 THEN 0 ELSE y1
        y3 == IF y2 + Fix(PaddleHeight) > Fix(CanvasHeight)
              THEN Fix(CanvasHeight) - Fix(PaddleHeight) ELSE y2
    IN  [p EXCEPT !.y = y3]

\* the values the model draws for (Math.random() - 0.5) * 5 in Ball.reset
SpeedYDraws == {-2 * Scale, Scale + Scale \div 2}

\* Ball.reset() with its two random draws
BallReset(dir, speedY) ==
    [x |-> Fix(CanvasWidth) \div 2, y |-> Fix(CanvasHeight) \div 2,
     speedX |-> dir * Fix(BallSpeed), speedY |-> speedY, uncertainty |-> 0]

\* Ball.quantumCollapse()
quantumCollapse(b) == [b EXCEPT !.uncertainty = Max2(0, b.uncertainty - 1)]

\* Ball.update(quantumMode, quantumFlux); jx, jy are the draws of
\* Math.random() - 0.5 (ghost balls are drawing state only)
BallUpdate(b, quantumMode, jx, jy) ==
    LET ux == IF quantumMode THEN jx * b.uncertainty * 2 ELSE 0
        uy == IF quantumMode THEN jy * b.uncertainty * 2 ELSE 0
        moved == [b EXCEPT !.x = b.x + b.speedX + ux, !.y = b.y + b.speedY + uy]
    IN  IF moved.y - Fix(BallRadius) < 0
           \/ moved.y + Fix(BallRadius) > Fix(CanvasHeight)
        THEN quantumCollapse([moved EXCEPT !.speedY = -moved.speedY])
        ELSE moved

\* the geometric test of Ball.checkPaddleCollision
Overlaps(b, p) ==
    /\ b.x - Fix(BallRadius) < p.x + Fix(PaddleWidth)
    /\ b.x + Fix(BallRadius) > p.x
    /\ b.y > p.y
    /\ b.y < p.y + Fix(PaddleHeight)

\* Ball.checkPaddleCollision(paddle, quantumMode, cb): the ball afterwards;
\* tunnel is the draw Math.random() < 0.05
checkPaddleCollision(b, p, quantumMode, tunnel) ==
    IF quantumMode /\ tunnel
    THEN b
    ELSE IF Overlaps(b, p)
    THEN LET hitPos == ((b.y - p.y) * Scale) \div Fix(PaddleHeight)
         IN  quantumCollapse(
               [b EXCEPT !.speedX = (-b.speedX * 105) \div 100,
                         !.uncertainty = b.uncertainty + 2,
                         !.speedY = (hitPos - Scale \div 2) * 10])
    ELSE b

\* Ball.checkScore()
checkScore(b) ==
    IF b.x - Fix(BallRadius) < 0 THEN "ai"
    ELSE IF b.x + Fix(BallRadius) > Fix(CanvasWidth) THEN "player"
    ELSE "null"

(***************************************************************************)
(* AIController: decisions                                                 *)
(***************************************************************************)
normalizeInputs(b, p) ==
    << b.y \div CanvasHeight,
       b.speedY \div 10,
       (b.x - p.x) \div CanvasWidth,
       p.y \div CanvasHeight >>

RECURSIVE Reflect(_)
\* the while loop of predictBallY
Reflect(y) ==
    IF y < 0 THEN Reflect(-y)
    ELSE IF y > Fix(CanvasHeight) THEN Reflect(2 * Fix(CanvasHeight) - y)
    ELSE y

\* a finite double so large (1e20, say) that the gap to its neighbours
\* exceeds 4 * canvasHeight: adding a coordinate of the field to it, or
\* subtracting it from 2 * canvasHeight, rounds to a number of the same
\* magnitude
Huge == -(NaN + 2)

\* predictBallY(ball, targetX, ...): a division by speedX = 0 yields NaN
\* (0 / 0, or 0 * Infinity), which skips the loop, or an infinite y, on
\* which the loop never ends; nor does it end on a Huge y, which both
\* reflections send back to a y of the same magnitude
predictBallY(b, targetX) ==
    IF b.speedX = 0
    THEN IF b.speedY = 0 \/ targetX = b.x
         THEN [hangs |-> FALSE, y |-> NaN]
         ELSE [hangs |-> TRUE, y |-> NaN]
    ELSE IF Abs(b.y) = Huge
    THEN [hangs |-> TRUE, y |-> b.y]
    ELSE [hangs |-> FALSE,
          y |-> Reflect(b.y + (b.speedY * Abs(targetX - b.x)) \div Abs(b.speedX))]

\* a decision that lets the network choose the direction: the larger of the
\* up and down outputs wins wherever the ball goes
decideByNetwork(output, b, p) ==
    IF predictBallY(b, p.x).hangs
    THEN [error |-> "hang"]
    ELSE Ok(IF output[3] > output[1] THEN 1
            ELSE IF output[1] > output[3] THEN -1 ELSE 0)

\* the decision of predict from the network's output and the ball
decide(output, b, p) ==
    LET predicted == predictBallY(b, p.x)
    IN  IF predicted.hangs
        THEN [error |-> "hang"]
        ELSE IF b.speedX > 0
        THEN LET targetY == predicted.y - Fix(PaddleHeight) \div 2
                 diff == targetY - p.y
             IN  IF Abs(diff) < Fix(5) THEN Ok(0)
                 ELSE IF diff > 0
                 THEN Ok(IF output[3] > output[1] THEN 1 ELSE 0)
                 ELSE Ok(IF output[1] > output[3] THEN -1 ELSE 0)
        ELSE LET centerY == Fix(CanvasHeight) \div 2
                 diff == centerY - p.y - Fix(PaddleHeight) \div 2
             IN  IF Abs(diff) < Fix(10) THEN Ok(0)
                 ELSE Ok(IF diff > 0 THEN 1 ELSE -1)

\* predict(ball, paddle, canvasWidth, canvasHeight): the action and
\* this.network afterwards, or the exception thrown
predict(net, b, p) ==
    LET Decide(fp) ==
            IF fp.error # ""
            THEN fp
            ELSE Const(decide(fp.v.output, b, p),
                       LAMBDA d : IF d.error # "" THEN d
                                  ELSE Ok([action |-> d.v, net |-> fp.v.net]))
    IN  Const(forwardPass(net, normalizeInputs(b, p)), Decide)

\* actionOneHot of recordDecision
OneHot(action) == [k \in 1..3 |-> IF k = action + 2 THEN 1 ELSE 0]

\* a recordDecision that already evicts when the push fills the buffer
recordDecisionEager(data, b, p, action) ==
    LET pushed == Append(data, [inputs |-> normalizeInputs(b, p),
                                action |-> OneHot(action)])
    IN  IF Len(pushed) >= maxTrainingData THEN Tail(pushed) ELSE pushed

\* recordDecision(ball, paddle, w, h, action): trainingData afterwards
recordDecision(data, b, p, action) ==
    LET pushed == Append(data, [inputs |-> normalizeInputs(b, p),
                                action |-> OneHot(action)])
    IN  IF Len(pushed) > maxTrainingData THEN Tail(pushed) ELSE pushed

(***************************************************************************)
(* Game (src/js/game.js): the state.  Drawing state (particles, renderer,   *)
(* ghost balls, quantumFlux, reality, the status line) is left out: no      *)
(* decision, sample or score reads it.                                      *)
(***************************************************************************)
VARIABLES
    impl,          \* which of the repository's programs runs
    state,         \* Game.state: running, paused, quantumMode, glitchMode, score
    keys,          \* Game.keys, by direction
    playerPaddle,
    aiPaddle,
    ball,
    network,       \* AIController.network
    trainingData,  \* AIController.trainingData
    halted,        \* gameLoop's promise rejected or never settled: no next frame
    recorded,      \* history: every sample ever handed to trainingData
    last,          \* history: what the latest operation did
    ticks,         \* frames run so far
    rare,          \* improbable random outcomes drawn so far
    clicks,        \* input events so far
    gameState,     \* OvercomplicatedPong.gameState, a GameStateManager
    balls,         \* OvercomplicatedPong.balls
    paddle2,       \* OvercomplicatedPong.paddle2
    neuralNetworkAI,  \* OvercomplicatedPong.neuralNetworkAI
    pending,       \* the updateAI calls suspended at an await
    bodies,         \* PhysicsBody objects (src/audio-system.js) on their own
    timers,        \* the callbacks given to setTimeout that have not run yet
    paddle1        \* OvercomplicatedPong.paddle1: quantumEnergy

\* the variables of OvercomplicatedPong (src/audio-system.js)
pongVars == << gameState, balls, paddle2, neuralNetworkAI, pending >>

\* the state of the time-slow effect outside GameStateManager
slowVars == << timers, paddle1 >>

vars == << impl, state, keys, playerPaddle, aiPaddle, ball, network,
           trainingData, halted, recorded, last, ticks, rare, clicks,
           pongVars, bodies, slowVars >>

\* frames explored
MaxTicks == 22

\* improbable random outcomes explored per run (tunnelling 5%, quantum events
\* 0.2%, glitches 5%, a jitter draw away from 0)
MaxRare == 1

\* input events explored per run
MaxClicks == 2

\* the draw explored for Math.random() - 0.5 in Ball.update besides 0
JitterDraw == Scale \div 4

\* last after an operation that runs no decision and no training:
\*   scored   the side whose score the frame incremented, or "null"
\*   calls    how many times the frame called reward() or punish()
\*   trained  whether a call got past the sample-count guards
\*   factor   the reward factor of the call
\*   samples  the buffer length when the call was made
\*   wrote    whether the decision left the network different
\*   changed  whether the call left the controller different
\*   decided  whether a decision was returned
\*   explored whether the decision was a random one
\*   action   the decision
\*   again    the decision of the second of two calls made in a row
\*   args     the arguments of a decision or forward pass called directly
\*   out      the result of a forward pass called directly
\*   overlap  whether a forward pass started while a training call was
\*            suspended
NoOp == [op |-> "none", scored |-> "null", calls |-> 0, trained |-> FALSE,
         factor |-> 0, samples |-> 0, wrote |-> FALSE, changed |-> FALSE,
         decided |-> FALSE, explored |-> FALSE, action |-> 0, again |-> 0,
         args |-> <<>>,
         out |-> <<>>, error |-> "", overlap |-> FALSE, points |-> 0]

\* the four weights of the constructor of NeuralNetwork (src/game.js), each
\* Math.random() * 2 - 1
NewWeights(seed) == [k \in 1..InputCount |-> Rand(seed, k, InputCount)]

\* new Game(canvas); in src/game.js the same objects built at top level, with
\* network the weights and trainingData the memory of neuralNetwork
InitGame ==
    /\ state = [running |-> FALSE, paused |-> FALSE, quantumMode |-> TRUE,
                glitchMode |-> FALSE, score |-> [player |-> 0, ai |-> 0]]
    /\ keys = [up |-> FALSE, down |-> FALSE]
    /\ playerPaddle = NewPaddle(Fix(20), Fix(CanvasHeight) \div 2 - Fix(40))
    /\ aiPaddle = NewPaddle(Fix(CanvasWidth) - Fix(30),
                            Fix(CanvasHeight) \div 2 - Fix(40))
    /\ \E dir \in {-1, 1}, sy \in SpeedYDraws : ball = BallReset(dir, sy)
    /\ \E seed \in 1..NumSeeds :
         network = IF impl = "legacy" THEN NewWeights(seed)
                   ELSE createNetwork(seed)
    /\ trainingData = <<>>
    /\ halted = FALSE
    /\ recorded = <<>>
    /\ last = NoOp
    /\ ticks = 0
    /\ rare = 0
    /\ clicks = 0
    /\ gameState = <<>>
    /\ balls = <<>>
    /\ paddle2 = <<>>
    /\ neuralNetworkAI = <<>>
    /\ pending = <<>>
    /\ bodies = <<>>
    /\ timers = <<>>
    /\ paddle1 = <<>>

\* Game.start()
Start ==
    /\ impl \in {"modules", "legacy"} /\ clicks < MaxClicks
    /\ state' = [state EXCEPT !.running = TRUE, !.paused = FALSE]
    /\ last' = [NoOp EXCEPT !.op = "start"]
    /\ clicks' = clicks + 1
    /\ UNCHANGED << impl, keys, playerPaddle, aiPaddle, ball, network,
                    trainingData, halted, recorded, ticks, rare, pongVars, bodies, slowVars >>

\* Game.pause()
Pause ==
    /\ impl \in {"modules", "legacy"} /\ clicks < MaxClicks
    /\ state' = [state EXCEPT !.paused = ~state.paused]
    /\ last' = [NoOp EXCEPT !.op = "pause"]
    /\ clicks' = clicks + 1
    /\ UNCHANGED << impl, keys, playerPaddle, aiPaddle, ball, network,
                    trainingData, halted, recorded, ticks, rare, pongVars, bodies, slowVars >>

\* Game.reset()
Reset ==
    /\ impl \in {"modules", "legacy"} /\ clicks < MaxClicks
    /\ state' = [state EXCEPT !.score = [player |-> 0, ai |-> 0]]
    /\ \E dir \in {-1, 1}, sy \in SpeedYDraws : ball' = BallReset(dir, sy)
    /\ last' = [NoOp EXCEPT !.op = "reset"]
    /\ clicks' = clicks + 1
    /\ UNCHANGED << impl, keys, playerPaddle, aiPaddle, network,
                    trainingData, halted, recorded, ticks, rare, pongVars, bodies, slowVars >>

\* Game.toggleQuantumMode()
ToggleQuantumMode ==
    /\ impl \in {"modules", "legacy"} /\ clicks < MaxClicks
    /\ state' = [state EXCEPT !.quantumMode = ~state.quantumMode]
    /\ last' = [NoOp EXCEPT !.op = "toggleQuantumMode"]
    /\ clicks' = clicks + 1
    /\ UNCHANGED << impl, keys, playerPaddle, aiPaddle, ball, network,
                    trainingData, halted, recorded, ticks, rare, pongVars, bodies, slowVars >>

\* Game.toggleGlitchMode()
ToggleGlitchMode ==
    /\ impl \in {"modules", "legacy"} /\ clicks < MaxClicks
    /\ state' = [state EXCEPT !.glitchMode = ~state.glitchMode]
    /\ last' = [NoOp EXCEPT !.op = "toggleGlitchMode"]
    /\ clicks' = clicks + 1
    /\ UNCHANGED << impl, keys, playerPaddle, aiPaddle, ball, network,
                    trainingData, halted, recorded, ticks, rare, pongVars, bodies, slowVars >>

\* the keydown listener of setupInput, for an up key or a down key
KeyDown ==
    /\ impl \in {"modules", "legacy"} /\ clicks < MaxClicks
    /\ \E k \in {"up", "down"} : keys' = [keys EXCEPT ![k] = TRUE]
    /\ last' = [NoOp EXCEPT !.op = "keydown"]
    /\ clicks' = clicks + 1
    /\ UNCHANGED << impl, state, playerPaddle, aiPaddle, ball, network,
                    trainingData, halted, recorded, ticks, rare, pongVars, bodies, slowVars >>

\* the keyup listener of setupInput
KeyUp ==
    /\ impl \in {"modules", "legacy"} /\ clicks < MaxClicks
    /\ \E k \in {"up", "down"} : keys[k] /\ keys' = [keys EXCEPT ![k] = FALSE]
    /\ last' = [NoOp EXCEPT !.op = "keyup"]
    /\ clicks' = clicks + 1
    /\ UNCHANGED << impl, state, playerPaddle, aiPaddle, ball, network,
                    trainingData, halted, recorded, ticks, rare, pongVars, bodies, slowVars >>

\* the improbable outcomes a frame may draw in the current state; "none" is
\* the probable one.  The three quantum events and two glitches that touch
\* drawing state only count as "none".
RareDraws(maxRare) ==
    {"none"} \cup
    (IF rare < maxRare /\ state.quantumMode
     THEN {"tunnelPlayer", "tunnelAI", "uncertainty", "entanglement"}
          \cup (IF ball.uncertainty > 0 THEN {"jitter"} ELSE {})
     ELSE {}) \cup
    (IF rare < maxRare /\ state.glitchMode
     THEN {"swapPaddles", "antigravity"}
     ELSE {})

\* the scoring branch of Game.update: what reward() or punish() did
Scoring(scored, ai) ==
    IF scored = "ai"
    THEN [calls |-> 1, factor |-> Scale, result |-> reward(ai)]
    ELSE IF scored = "player"
    THEN [calls |-> 1, factor |-> -(Scale \div 2), result |-> punish(ai)]
    ELSE [calls |-> 0, factor |-> 0, result |-> Ok(ai)]

\* Game.triggerUncertainty / triggerEntanglement / antigravity on the ball
BallEvent(b, draw) ==
    IF draw = "uncertainty" THEN [b EXCEPT !.uncertainty = 10]
    ELSE IF draw = "entanglement"
    THEN [b EXCEPT !.speedX = -b.speedX, !.speedY = -b.speedY]
    ELSE IF draw = "antigravity" THEN [b EXCEPT !.speedY = -b.speedY * 2]
    ELSE b

\* Game.update(), one frame of gameLoop: the awaited calls resolve before any
\* other task runs, so the frame is one step
Update(maxTicks, maxRare, resetDraws) ==
    /\ impl = "modules"
    /\ state.running /\ ~state.paused
    /\ ~halted
    /\ ticks < maxTicks
    /\ ticks' = ticks + 1
    /\ \E pr \in {predict(network, ball, aiPaddle)} :
       LET v1 == IF keys.up THEN -Fix(PaddleSpeed) ELSE 0
           v2 == IF keys.down THEN Fix(PaddleSpeed) ELSE v1
       IN  IF pr.error # ""
           THEN /\ halted' = TRUE
                /\ playerPaddle' = [playerPaddle EXCEPT !.velocity = v2]
                /\ last' = [NoOp EXCEPT !.op = "update", !.error = pr.error]
                /\ UNCHANGED << impl, state, keys, aiPaddle, ball, network,
                                trainingData, recorded, rare, clicks, pongVars, bodies, slowVars >>
           ELSE
           LET aiAction == pr.v.action
               ai1 == [aiPaddle EXCEPT !.velocity = aiAction * Fix(PaddleSpeed)]
               data == recordDecision(trainingData, ball, ai1, aiAction)
               pp == PaddleUpdate([playerPaddle EXCEPT !.velocity = v2])
               ap == PaddleUpdate(ai1)
           IN  \E draw \in RareDraws(maxRare) :
               LET j == IF draw = "jitter" THEN JitterDraw ELSE 0
                   b1 == BallUpdate(ball, state.quantumMode, j, -j)
                   b2 == checkPaddleCollision(b1, pp, state.quantumMode,
                                              draw = "tunnelPlayer")
                   b3 == checkPaddleCollision(b2, ap, state.quantumMode,
                                              draw = "tunnelAI")
                   scored == checkScore(b3)
               IN  /\ draw = "tunnelPlayer" => Overlaps(b1, pp)
                   /\ draw = "tunnelAI" => Overlaps(b2, ap)
                   /\ \E sc \in {Scoring(scored, [network |-> pr.v.net,
                                                   trainingData |-> data])} :
                        /\ rare' = IF draw = "none" THEN rare ELSE rare + 1
                        /\ state' = IF scored = "null" THEN state
                                    ELSE [state EXCEPT !.score[scored] = @ + 1]
                        /\ IF scored = "null"
                           THEN ball' = BallEvent(b3, draw)
                           ELSE \E r \in resetDraws :
                                  ball' = BallEvent(BallReset(r[1], r[2]), draw)
                        /\ playerPaddle' = IF draw = "swapPaddles"
                                           THEN [pp EXCEPT !.y = ap.y] ELSE pp
                        /\ aiPaddle' = IF draw = "swapPaddles"
                                       THEN [ap EXCEPT !.y = pp.y] ELSE ap
                        /\ trainingData' = IF sc.result.error = ""
                                           THEN sc.result.v.trainingData
                                           ELSE data
                        /\ recorded' = Append(recorded,
                                              [inputs |-> normalizeInputs(ball, aiPaddle),
                                               action |-> OneHot(aiAction)])
                        /\ network' = IF sc.result.error = ""
                                      THEN sc.result.v.network
                                      ELSE pr.v.net
                        /\ halted' = (sc.result.error # "")
                        /\ last' = [NoOp EXCEPT
                                      !.op = "update", !.scored = scored,
                                      !.calls = sc.calls,
                                      !.trained = sc.calls = 1
                                                  /\ Len(data) >= MinSamples,
                                      !.factor = sc.factor,
                                      !.samples = Len(data),
                                      !.wrote = pr.v.net # network,
                                      !.changed =
                                          sc.result.error = "" =>
                                          sc.result.v # [network |-> pr.v.net,
                                                         trainingData |-> data],
                                      !.decided = TRUE,
                                      !.action = aiAction,
                                      !.error = sc.result.error]
                        /\ UNCHANGED << impl, keys, clicks, pongVars, bodies, slowVars >>

\* the draws explored for the two Math.random() calls of Ball.reset
ResetDraws == {-1, 1} \X SpeedYDraws

Tick == Update(MaxTicks, MaxRare, ResetDraws)

\* frames explored when the run is followed past the buffer's capacity
MaxTicksLong == 250

\* a long run: every draw is the probable one, and Ball.reset serves towards
\* the AI
TickLong == Update(MaxTicksLong, 0, {<<1, Scale + Scale \div 2>>})

(***************************************************************************)
(* src/game.js, the single-file program: NeuralNetwork and update()        *)
(***************************************************************************)
\* memory.length bound of NeuralNetwork.predict
MemoryCap == 100

\* memory.slice(-10) of adjustWeights
AdjustSlice == 10

\* the draw explored for (Math.random() - 0.5) * 0.2 in adjustWeights
PerturbDraw == Scale \div 20

\* NeuralNetwork.predict(ball, paddle): the decision and memory afterwards
legacyPredict(weights, memory, b, p) ==
    LET inputs == normalizeInputs(b, p)
        decision == Dot(inputs, [i \in 1..InputCount |-> <<weights[i]>>], 1,
                        InputCount) \div Scale
        pushed == Append(memory, [inputs |-> inputs, decision |-> decision])
    IN  [decision |-> decision,
         memory |-> IF Len(pushed) > MemoryCap THEN Tail(pushed) ELSE pushed]

RECURSIVE adjustFrom(_, _, _, _)
\* the forEach of adjustWeights over recent[k..]
adjustFrom(weights, recent, k, factor) ==
    IF k > Len(recent)
    THEN weights
    ELSE adjustFrom([i \in 1..InputCount |->
                       weights[i]
                       + (recent[k].inputs[i] * LearningRate * factor) \div Scale],
                    recent, k + 1, factor)

\* NeuralNetwork.adjustWeights(factor); perturb is the draw
\* Math.random() < 0.1
adjustWeights(weights, memory, factor, quantumMode, perturb) ==
    IF Len(memory) = 0
    THEN weights
    ELSE LET w == adjustFrom(weights, SliceLast(memory, AdjustSlice), 1, factor)
         IN  IF quantumMode /\ perturb
             THEN [i \in 1..InputCount |-> w[i] + PerturbDraw]
             ELSE w

\* the scoring lines of Ball.update in src/game.js: which score is incremented
legacyScore(b) ==
    IF b.x - Fix(BallRadius) < 0 THEN "ai"
    ELSE IF b.x + Fix(BallRadius) > Fix(CanvasWidth) THEN "player"
    ELSE "null"

\* the scoring lines of Ball.update in src/game.js: the factor handed to
\* adjustWeights, punish() beside score.ai++ and reward() beside
\* score.player++
legacyFactor(scored) == IF scored = "ai" THEN -1 ELSE 1

\* update() of src/game.js, one frame of gameLoop
LegacyUpdate ==
    /\ impl = "legacy"
    /\ state.running /\ ~state.paused
    /\ ticks < MaxTicks
    /\ ticks' = ticks + 1
    /\ \E pr \in {legacyPredict(network, trainingData, ball, aiPaddle)},
          draw \in RareDraws(MaxRare) \cup
                    (IF rare < MaxRare /\ state.quantumMode
                     THEN {"perturb"} ELSE {}) :
       LET v1 == IF keys.up THEN -Fix(PaddleSpeed) ELSE 0
           v2 == IF keys.down THEN Fix(PaddleSpeed) ELSE v1
           av == IF pr.decision > Scale \div 10 THEN Fix(PaddleSpeed)
                 ELSE IF pr.decision < -(Scale \div 10) THEN -Fix(PaddleSpeed)
                 ELSE 0
           pp == PaddleUpdate([playerPaddle EXCEPT !.velocity = v2])
           ap == PaddleUpdate([aiPaddle EXCEPT !.velocity = av])
           j == IF draw = "jitter" THEN JitterDraw ELSE 0
           b1 == BallUpdate(ball, state.quantumMode, j, -j)
           scored == legacyScore(b1)
       IN  /\ draw = "perturb" => scored # "null"
           /\ \E dir \in (IF scored = "null" THEN {1} ELSE {-1, 1}),
                 sy \in (IF scored = "null" THEN {0} ELSE SpeedYDraws) :
              LET b2 == IF scored = "null" THEN b1 ELSE BallReset(dir, sy)
                  b3 == checkPaddleCollision(b2, pp, state.quantumMode,
                                             draw = "tunnelPlayer")
                  b4 == checkPaddleCollision(b3, ap, state.quantumMode,
                                             draw = "tunnelAI")
              IN  /\ draw = "tunnelPlayer" => Overlaps(b2, pp)
                  /\ draw = "tunnelAI" => Overlaps(b3, ap)
                  /\ ball' = BallEvent(b4, draw)
           /\ rare' = IF draw = "none" THEN rare ELSE rare + 1
           /\ state' = IF scored = "null" THEN state
                       ELSE [state EXCEPT !.score[scored] = @ + 1]
           /\ playerPaddle' = IF draw = "swapPaddles"
                              THEN [pp EXCEPT !.y = ap.y] ELSE pp
           /\ aiPaddle' = IF draw = "swapPaddles"
                          THEN [ap EXCEPT !.y = pp.y] ELSE ap
           /\ trainingData' = pr.memory
           /\ network' = IF scored = "null" THEN network
                         ELSE adjustWeights(network, pr.memory,
                                            legacyFactor(scored),
                                            state.quantumMode, draw = "perturb")
           /\ last' = [NoOp EXCEPT
                         !.op = "update", !.scored = scored,
                         !.calls = IF scored = "null" THEN 0 ELSE 1,
                         !.trained = scored # "null",
                         !.factor = IF scored = "null" THEN 0
                                    ELSE legacyFactor(scored) * Scale,
                         !.samples = Len(pr.memory),
                         !.changed = scored # "null",
                         !.decided = TRUE,
                         !.action = av \div Fix(PaddleSpeed)]
           /\ UNCHANGED << impl, keys, clicks, halted, recorded, pongVars, bodies, slowVars >>

(***************************************************************************)
(* src/audio-system.js: GameStateManager, NeuralNetworkAI and the frame of  *)
(* OvercomplicatedPong in the mode 'vs-ai'.  The field is reduced to the    *)
(* ball's column: the ball moves one column per frame, the goal lines lie   *)
(* PongHalf columns from the centre, the paddles stand on the last column   *)
(* before them, and dy stands for ball.y - paddle.y when the ball arrives.  *)
(* The TensorFlow.js model is its number of completed fit() calls.          *)
(***************************************************************************)
\* GAME_CONFIG.ai
batchSize == 32

updateFrequency == 60

memorySize == 1000

\* GAME_CONFIG.scoring.winScore
winScore == 11

\* epsilon, epsilonDecay and epsilonMin of NeuralNetworkAI, times Scale
EpsilonStart == 300

EpsilonDecay == 995

EpsilonMin == 50

\* columns between the centre and a goal line
PongHalf == 6

\* frames of OvercomplicatedPong explored
MaxFrames == 10

\* frames of OvercomplicatedPong explored when the run is followed to the
\* first training call
MaxFramesLong == 242

\* updateAI calls that may be suspended at once
MaxInFlight == 2

\* the draws explored for dy: the ball passes the paddle (the probable
\* outcome here) or meets it
DyMiss == 100

DyHit == 0

\* a property read of a JavaScript object: undefined, NaN in arithmetic, when
\* the object has no such field
Prop(obj, name) == IF name \in DOMAIN obj THEN obj[name] ELSE NaN

\* a / n in JavaScript
Quot(a, n) == IF a = NaN THEN NaN ELSE a \div n

\* new GameStateManager(), the fields the frame and the AI read
NewGameStateManager ==
    [state |-> "menu", mode |-> "null", score1 |-> 0, score2 |-> 0,
     timeScale |-> Scale, quantumActive |-> FALSE, matchStartTime |-> 0]

\* GameStateManager.startGame(mode) at the time now
gsStartGame(g, mode, now) ==
    [g EXCEPT !.state = "playing", !.mode = mode, !.score1 = 0, !.score2 = 0,
              !.timeScale = Scale, !.quantumActive = FALSE,
              !.matchStartTime = now]

\* GameStateManager.scorePoint(player)
gsScorePoint(g, player) ==
    LET g1 == IF player = 1 THEN [g EXCEPT !.score1 = @ + 1]
              ELSE [g EXCEPT !.score2 = @ + 1]
    IN  IF g1.score1 >= winScore \/ g1.score2 >= winScore
        THEN [g1 EXCEPT !.state = "gameover"]
        ELSE g1

\* GameStateManager.togglePause()
togglePause(g) ==
    IF g.state = "playing" THEN [g EXCEPT !.state = "paused"]
    ELSE IF g.state = "paused" THEN [g EXCEPT !.state = "playing"]
    ELSE g

\* the topology initializeModel builds: inputShape [20] and 3 output units
inputShape == 20
outputUnits == 3

\* this.model = null, and the model of initializeModel
NoModel == [inputShape |-> 0, units |-> 0]
NewModel == [inputShape |-> inputShape, units |-> outputUnits]

\* new NeuralNetworkAI(0.7); initializeModel sets useFallback when
\* TensorFlow.js is not loaded
NewNeuralNetworkAI(useFallback) ==
    [useFallback |-> useFallback, memory |-> <<>>, updateCounter |-> 0,
     epsilon |-> EpsilonStart, fits |-> 0,
     model |-> IF useFallback THEN NoModel ELSE NewModel]

\* tf.loadLayersModel('localstorage://pong-ai-model'): what the browser has
\* stored under the key: nothing, a model of the topology of
\* initializeModel, one with 10 inputs, one with 2 output units
StoredDraws ==
    {NoModel, NewModel, [NewModel EXCEPT !.inputShape = 10],
     [NewModel EXCEPT !.units = 2]}

\* NeuralNetworkAI.loadModel(): the controller afterwards; loading nothing
\* throws inside the try and leaves the model as it was
loadModel(nn, stored) ==
    IF nn.useFallback \/ stored = NoModel THEN nn
    ELSE [nn EXCEPT !.model = stored]

\* Ball.reset(direction) with its draw
PongBallReset(direction, dy) == [x |-> 0, vx |-> direction, dy |-> dy]

\* NeuralNetworkAI.getStateRepresentation(paddle, ball, gameState), the
\* features that vary here: ball column, ball velocity, the two scores,
\* gameState.ballSpeed / 20, quantumActive and timeScale
getStateRepresentation(b, g) ==
    << Fix(b.x + PongHalf) \div (2 * PongHalf),
       Fix(b.vx) \div 20,
       Quot(Fix(Prop(g, "score1")), 10),
       Quot(Fix(Prop(g, "score2")), 10),
       Quot(Prop(g, "ballSpeed"), 20),
       IF Prop(g, "quantumActive") = TRUE THEN Scale ELSE 0,
       Prop(g, "timeScale") >>

\* NeuralNetworkAI.fallbackAI(paddle, ball)
fallbackAI(b) ==
    IF Abs(b.dy) < 10 THEN 0 ELSE IF b.dy > 0 THEN 1 ELSE -1

\* model.predict(stateTensor) followed by data(): a NaN among the features
\* reaches every unit of a dense layer
modelPredict(fits, features) ==
    IF \E k \in 1..Len(features) : features[k] = NaN
    THEN <<NaN, NaN, NaN>>
    ELSE <<(Scale \div 3), (Scale \div 3) + ((fits + features[1]) % 2),
           (Scale \div 3)>>

\* Math.max(...data)
mathMax(data) ==
    IF \E k \in 1..Len(data) : data[k] = NaN THEN NaN
    ELSE MaxSeq(data, Len(data))

\* data.indexOf(v): NaN is found nowhere
indexOf(data, v) ==
    IF v = NaN \/ \A k \in 1..Len(data) : data[k] # v
    THEN -1
    ELSE (CHOOSE k \in 1..Len(data) :
            data[k] = v /\ \A m \in 1..(k - 1) : data[m] # v) - 1

\* the decay of epsilon at the end of predict
decay(nn) ==
    [nn EXCEPT !.epsilon = Max2(EpsilonMin, (@ * EpsilonDecay) \div Scale)]

\* the draws of predict: Math.random() < epsilon, and Random.int(0, 2)
PredictDraws(nn) ==
    (IF nn.epsilon < Scale THEN {<<FALSE, 0>>} ELSE {}) \cup
    (IF nn.epsilon > 0 THEN {<<TRUE, r>> : r \in 0..2} ELSE {})

\* the draws of one predict call of the controller nn
DrawsOf(nn) == IF nn.useFallback THEN {<<FALSE, 0>>} ELSE PredictDraws(nn)

\* NeuralNetworkAI.predict(paddle, ball, gameState) up to its await: the
\* action returned, or the call suspended on prediction.data()
predictStart(nn, b, g, draw) ==
    IF nn.useFallback
    THEN [done |-> TRUE, action |-> fallbackAI(b), explored |-> FALSE,
          nn |-> nn]
    ELSE IF draw[1]
    THEN [done |-> TRUE, action |-> draw[2] - 1, explored |-> TRUE,
          nn |-> decay(nn)]
    ELSE IF nn.model.inputShape # inputShape
    THEN \* model.predict throws on a tensor of 20 features: the catch
         [done |-> TRUE, action |-> fallbackAI(b), explored |-> FALSE,
          nn |-> nn]
    ELSE [done |-> FALSE, features |-> getStateRepresentation(b, g)]

\* a predictFinish whose choice reads the controller's epsilon
predictFinishStateful(nn, features) ==
    [action |-> (nn.epsilon % 3) - 1, nn |-> decay(nn)]

\* NeuralNetworkAI.predict after prediction.data() resolved
predictFinish(nn, features) ==
    LET predictionData == SubSeq(modelPredict(nn.fits, features),
                                 1, nn.model.units)
        action == indexOf(predictionData, mathMax(predictionData))
    IN  [action |-> action - 1, nn |-> decay(nn)]

\* the guard of NeuralNetworkAI.train(): whether the call gets to its awaits
trainGuard(nn) == ~nn.useFallback /\ Len(nn.memory) >= batchSize

\* NeuralNetworkAI.remember(state, action, reward, nextState, done)
remember(nn, st, action, rewardValue, nextState, done) ==
    LET pushed == Append(nn.memory,
                         [state |-> st, action |-> action,
                          reward |-> rewardValue, nextState |-> nextState,
                          done |-> done])
    IN  [nn EXCEPT !.memory = IF Len(pushed) > memorySize
                              THEN Tail(pushed) ELSE pushed]

\* NeuralNetworkAI.calculateReward(paddle, ball, scored, conceded) at a
\* scoring event
calculateReward(scored, conceded) ==
    (IF scored THEN 10 ELSE 0) - (IF conceded THEN 10 ELSE 0)

\* whether a suspended updateAI call is inside train()
Training(t) == t.pc \in {"train.q", "train.qnext", "train.fit"}

\* the game of src/js and src/game.js is not running
IdleGame ==
    /\ state = <<>> /\ keys = <<>> /\ playerPaddle = <<>> /\ aiPaddle = <<>>
    /\ ball = <<>> /\ network = <<>> /\ trainingData = <<>>
    /\ halted = FALSE /\ recorded = <<>>
    /\ last = NoOp /\ ticks = 0 /\ rare = 0 /\ clicks = 0

gameVars == << state, keys, playerPaddle, aiPaddle, ball, network,
               trainingData, halted, recorded >>

\* new OvercomplicatedPong() and its initialize()
InitPong ==
    /\ impl = "pong"
    /\ IdleGame
    /\ gameState = NewGameStateManager
    /\ balls = <<>>
    /\ paddle2 = <<>>
    /\ \E useFallback \in BOOLEAN :
         neuralNetworkAI = NewNeuralNetworkAI(useFallback)
    /\ pending = <<>>
    /\ bodies = <<>>
    /\ timers = <<>>
    /\ paddle1 = <<>>

\* new Paddle(...) of startGame for the player: the energy the keys spend
NewPaddle1 == [quantumEnergy |-> Fix(100)]

\* OvercomplicatedPong.startGame('vs-ai'), offered by the overlay shown in
\* the menu and after a match
StartGame ==
    /\ impl = "pong"
    /\ gameState.state \in {"menu", "gameover"}
    /\ gameState' = gsStartGame(gameState, "vs-ai", ticks)
    /\ paddle1' = NewPaddle1
    /\ paddle2' = [input |-> 0]
    /\ \E direction \in {-1, 1} : balls' = << PongBallReset(direction, DyMiss) >>
    /\ last' = [NoOp EXCEPT !.op = "startGame"]
    /\ UNCHANGED << impl, gameVars, bodies, timers, ticks, rare, clicks,
                    neuralNetworkAI, pending >>

\* the keydown listener of OvercomplicatedPong.setupInput for Escape, in
\* whatever state the game is
Escape ==
    /\ impl = "pong" /\ clicks < MaxClicks
    /\ gameState' = togglePause(gameState)
    /\ clicks' = clicks + 1
    /\ last' = [NoOp EXCEPT !.op = "escape"]
    /\ UNCHANGED << impl, gameVars, bodies, slowVars, ticks, rare, balls, paddle2,
                    neuralNetworkAI, pending >>

\* the sequence s without its i-th element
Without(s, i) == SubSeq(s, 1, i - 1) \o SubSeq(s, i + 1, Len(s))

\* the physics of one frame on the ball's column, handleCollisions included:
\* the ball afterwards and the player scorePoint was called for (0: none);
\* dy is the draw for the ball's next arrival at a paddle
pongPhysics(b, dy) ==
    LET x1 == b.x + b.vx
    IN  IF Abs(x1) = PongHalf /\ x1 * b.vx > 0 /\ Abs(b.dy) < 50
        THEN [ball |-> [x |-> x1, vx |-> -b.vx, dy |-> dy], player |-> 0]
        ELSE IF x1 < -PongHalf
        THEN [ball |-> PongBallReset(-1, dy), player |-> 2]
        ELSE IF x1 > PongHalf
        THEN [ball |-> PongBallReset(1, dy), player |-> 1]
        ELSE [ball |-> [b EXCEPT !.x = x1], player |-> 0]

\* OvercomplicatedPong.scorePoint(player, ball) on the AI: remember()
scoreMemory(nn, player, b, g) ==
    IF g.mode = "vs-ai"
    THEN remember(nn, getStateRepresentation(b, g), 0,
                  calculateReward(player = 2, player = 1),
                  getStateRepresentation(b, g), TRUE)
    ELSE nn

\* ball.update(deltaTime) on the ball's column
moveBall(b) == [b EXCEPT !.x = b.x + b.vx]

\* checkBallPaddleCollision and checkBallWallCollision of a ball that has
\* moved: the ball afterwards and the player scorePoint is called for
collideBall(b, dy) ==
    IF Abs(b.x) = PongHalf /\ b.x * b.vx > 0 /\ Abs(b.dy) < 50
    THEN [ball |-> [x |-> b.x, vx |-> -b.vx, dy |-> dy], player |-> 0]
    ELSE IF b.x < -PongHalf THEN [ball |-> b, player |-> 2]
    ELSE IF b.x > PongHalf THEN [ball |-> b, player |-> 1]
    ELSE [ball |-> b, player |-> 0]

\* applyPowerUpEffect('multiBall', ball): two balls created at the place of
\* the ball, each in a direction drawn
multiBall(bs, b, dirs, dy) ==
    bs \o << [x |-> b.x, vx |-> dirs[1], dy |-> dy],
             [x |-> b.x, vx |-> dirs[2], dy |-> dy] >>

\* a scorePoint that always takes the ball out of the array
alwaysRemove(bs, k, player, dy) == Without(bs, k)

\* the end of OvercomplicatedPong.scorePoint(player, ball) for the ball at
\* index k: spliced out when another ball is left, reset otherwise
resetOrRemove(bs, k, player, dy) ==
    IF Len(bs) > 1
    THEN Without(bs, k)
    ELSE << PongBallReset(IF player = 1 THEN 1 ELSE -1, dy) >>

RECURSIVE handleCollisions(_, _, _, _, _, _, _)
\* handleCollisions(): this.balls.forEach over the n balls the array had
\* when the loop began, from index k on.  scorePoint counts the point, then
\* resets the only ball or splices the ball out of the array, which moves
\* the next ball to the index just visited, so that the loop passes it by.
\* pu.at is the index whose ball collects a multi-ball power-up (0: none).
handleCollisions(r, k, n, g, dy, pu, nn) ==
    IF k > n \/ k > Len(r.balls) THEN [r EXCEPT !.g = g, !.nn = nn]
    ELSE LET c == collideBall(r.balls[k], dy)
         IN  IF c.player = 0
             THEN LET kept == [r.balls EXCEPT ![k] = c.ball]
                  IN  handleCollisions(
                          IF pu.at = k
                          THEN [r EXCEPT !.balls = multiBall(kept, c.ball, pu.dirs, dy),
                                         !.collected = TRUE]
                          ELSE [r EXCEPT !.balls = kept],
                          k + 1, n, g, dy, pu, nn)
             ELSE LET g1 == gsScorePoint(g, c.player)
                      b1 == IF Len(r.balls) > 1 THEN c.ball
                            ELSE PongBallReset(IF c.player = 1 THEN 1 ELSE -1, dy)
                  IN  handleCollisions(
                          [r EXCEPT !.balls = resetOrRemove(r.balls, k, c.player, dy),
                                    !.player = c.player,
                                    !.points = @ + 1],
                          k + 1, n, g1, dy, pu, scoreMemory(nn, c.player, b1, g1))

\* the balls of one frame of update(deltaTime): every ball moves, then
\* handleCollisions()
updateBalls(bs, g, nn, dy, pu) ==
    handleCollisions([balls |-> [k \in 1..Len(bs) |-> moveBall(bs[k])],
                      player |-> 0, points |-> 0, collected |-> FALSE,
                      g |-> g, nn |-> nn],
                     1, Len(bs), g, dy, pu, nn)

\* which ball collects a multi-ball power-up in a frame, and the directions
\* of the two balls it adds
PowerUpDraws(bs, allowed) ==
    {[at |-> 0, dirs |-> << 1, 1 >>]} \cup
    (IF allowed
     THEN {[at |-> k, dirs |-> << d1, d2 >>] :
              k \in 1..Len(bs), d1 \in {-1, 1}, d2 \in {-1, 1}}
     ELSE {})

\* one frame of OvercomplicatedPong.gameLoop in the state 'playing':
\* update(deltaTime), whose call of updateAI is not awaited.  updateAI runs
\* up to the first await that has to wait (prediction.data(), or the first
\* await inside train()); the rest of the frame runs before it resumes.
Frame(maxFrames, maxRare, explore, powerUps) ==
    /\ impl = "pong"
    /\ gameState.state = "playing"
    /\ ticks < maxFrames
    /\ Len(pending) < MaxInFlight
    /\ ticks' = ticks + 1
    /\ \E dy \in {DyMiss} \cup (IF rare < maxRare THEN {DyHit} ELSE {}),
          pu \in PowerUpDraws(balls, powerUps /\ rare < maxRare) :
       LET counted == [neuralNetworkAI EXCEPT !.updateCounter = @ + 1]
           due == counted.updateCounter >= updateFrequency
           nn1 == IF due THEN [counted EXCEPT !.updateCounter = 0] ELSE counted
           trains == due /\ trainGuard(nn1)
           ph == Const(nn1, LAMBDA n : updateBalls(balls, gameState, n, dy, pu))
           g1 == ph.g
           nn2 == ph.nn
           scored == IF ph.player = 0 THEN "null"
                     ELSE IF ph.player = 2 THEN "ai" ELSE "player"
       IN  /\ dy = DyHit =>
                 \/ ph.player # 0
                 \/ Len(ph.balls) > 0 /\ ph.balls[1].dy # balls[1].dy
           /\ pu.at # 0 => dy = DyMiss /\ ph.collected
           /\ rare' = IF dy = DyHit \/ pu.at # 0 THEN rare + 1 ELSE rare
           /\ balls' = ph.balls
           /\ gameState' = g1
           /\ IF Len(balls) = 0 \/ Len(ph.balls) = 0
              THEN \* updateAI: this.balls.length > 0 fails, nothing is called
                   /\ UNCHANGED << neuralNetworkAI, paddle2, pending >>
                   /\ last' = [NoOp EXCEPT
                                 !.op = "frame", !.scored = scored,
                                 !.points = ph.points]
              ELSE IF trains
              THEN /\ pending' = Append(pending, [pc |-> "train.q"])
                   /\ neuralNetworkAI' = nn2
                   /\ paddle2' = paddle2
                   /\ last' = [NoOp EXCEPT
                                 !.op = "frame", !.scored = scored,
                                 !.points = ph.points,
                                 !.calls = 1, !.trained = TRUE,
                                 !.samples = Len(nn1.memory)]
              ELSE \E draw \in {d \in DrawsOf(nn2) : explore \/ ~d[1]} :
                   LET b == IF due THEN ph.balls[1] ELSE balls[1]
                       g == IF due THEN g1 ELSE gameState
                       pr == predictStart(nn2, b, g, draw)
                   IN  /\ last' = [NoOp EXCEPT
                                     !.op = "frame", !.scored = scored,
                                     !.points = ph.points,
                                     !.calls = IF due THEN 1 ELSE 0,
                                     !.samples = Len(nn1.memory),
                                     !.decided = pr.done,
                                     !.explored = pr.done /\ pr.explored,
                                     !.action = IF pr.done THEN pr.action ELSE 0,
                                     !.overlap =
                                         ~pr.done /\
                                         \E k \in 1..Len(pending) :
                                            Training(pending[k])]
                       /\ IF pr.done
                          THEN /\ neuralNetworkAI' = pr.nn
                               /\ paddle2' = [input |-> pr.action]
                               /\ pending' = pending
                          ELSE /\ neuralNetworkAI' = nn2
                               /\ paddle2' = paddle2
                               /\ pending' =
                                    Append(pending,
                                           [pc |-> "predict.data",
                                            features |-> pr.features])
    /\ UNCHANGED << impl, gameVars, bodies, slowVars, clicks >>

\* an awaited promise of a suspended updateAI call resolves, and the call
\* runs on to its next await that has to wait, or to its end
Resolve ==
    /\ impl = "pong"
    /\ \E i \in 1..Len(pending) :
       LET t == pending[i]
       IN  IF t.pc \in {"train.q", "train.qnext"}
           THEN /\ pending' = [pending EXCEPT
                                 ![i].pc = IF t.pc = "train.q"
                                           THEN "train.qnext" ELSE "train.fit"]
                /\ last' = [NoOp EXCEPT !.op = "resolve"]
                /\ UNCHANGED << neuralNetworkAI, paddle2 >>
           ELSE IF t.pc = "train.fit"
           THEN \E draw \in PredictDraws(neuralNetworkAI) :
                LET fitted == [neuralNetworkAI EXCEPT !.fits = @ + 1]
                    pr == predictStart(fitted, balls[1], gameState, draw)
                IN  /\ last' = [NoOp EXCEPT
                                  !.op = "resolve", !.changed = TRUE,
                                  !.decided = pr.done,
                                  !.explored = pr.done /\ pr.explored,
                                  !.action = IF pr.done THEN pr.action ELSE 0,
                                  !.overlap =
                                      ~pr.done /\
                                      \E k \in 1..Len(pending) :
                                         k # i /\ Training(pending[k])]
                    /\ IF pr.done
                       THEN /\ neuralNetworkAI' = pr.nn
                            /\ paddle2' = [input |-> pr.action]
                            /\ pending' = Without(pending, i)
                       ELSE /\ neuralNetworkAI' = fitted
                            /\ paddle2' = paddle2
                            /\ pending' = [pending EXCEPT
                                             ![i] = [pc |-> "predict.data",
                                                     features |-> pr.features]]
           ELSE LET pf == predictFinish(neuralNetworkAI, t.features)
                IN  /\ neuralNetworkAI' = pf.nn
                    /\ paddle2' = [input |-> pf.action]
                    /\ pending' = Without(pending, i)
                    /\ last' = [NoOp EXCEPT
                                  !.op = "resolve", !.decided = TRUE,
                                  !.action = pf.action]
    /\ UNCHANGED << impl, gameVars, bodies, slowVars, ticks, rare, clicks, gameState, balls >>

FrameTick == Frame(MaxFrames, MaxRare, TRUE, FALSE)

\* a long run: every draw is the probable one, so every ball is missed and
\* every decision is the model's
FrameTickLong == Frame(MaxFramesLong, 0, FALSE, FALSE)

\* how many frames a match with a multi-ball power-up runs
MaxFramesMulti == 80

\* one frame of a match in which one multi-ball power-up may be collected
FrameMulti == Frame(MaxFramesMulti, 1, FALSE, TRUE)

NextPongLong ==
    \/ StartGame
    \/ FrameTickLong
    \/ Resolve

SpecPongLong == InitPong /\ [][NextPongLong]_vars

(***************************************************************************)
(* Direct calls of the controllers' methods, on the state the game is in    *)
(***************************************************************************)
\* the input vectors explored for a direct call of forwardPass: the current
\* features, and each number of the range of a feature repeated
ProbeInputs ==
    {normalizeInputs(ball, aiPaddle)} \cup
    {[k \in 1..InputCount |-> v] : v \in {-Scale, 0, Scale}}

\* forwardPass(inputs) of src/js/ai.js called with an input vector cut to, or
\* padded with a zero to, n numbers
ForwardPassCall ==
    /\ impl = "modules" /\ clicks < MaxClicks
    /\ \E n \in (InputCount - 1)..(InputCount + 1), full \in ProbeInputs :
       LET inputs == [k \in 1..n |-> IF k <= InputCount THEN full[k] ELSE 0]
       IN  \E fp \in {forwardPass(network, inputs)} :
             /\ network' = IF fp.error = "" THEN fp.v.net ELSE network
             /\ last' = [NoOp EXCEPT
                           !.op = "forwardPass", !.args = inputs,
                           !.out = IF fp.error = "" THEN fp.v.output ELSE <<>>,
                           !.error = fp.error]
    /\ clicks' = clicks + 1
    /\ UNCHANGED << impl, state, keys, playerPaddle, aiPaddle, ball,
                    trainingData, halted, recorded, ticks, rare, pongVars, bodies, slowVars >>

\* AIController.dispose()
Dispose ==
    /\ impl = "modules" /\ clicks < MaxClicks
    /\ trainingData' = <<>>
    /\ last' = [NoOp EXCEPT !.op = "dispose"]
    /\ clicks' = clicks + 1
    /\ UNCHANGED << impl, state, keys, playerPaddle, aiPaddle, ball, network,
                    halted, recorded, ticks, rare, pongVars, bodies, slowVars >>

\* predict(ball, paddle, w, h) of src/js/ai.js called twice in a row
PredictTwice ==
    /\ impl = "modules" /\ clicks < MaxClicks
    /\ \E first \in {predict(network, ball, aiPaddle)} :
         /\ first.error = ""
         /\ \E second \in {predict(first.v.net, ball, aiPaddle)} :
              /\ second.error = ""
              /\ network' = second.v.net
              /\ last' = [NoOp EXCEPT
                            !.op = "predictTwice", !.decided = TRUE,
                            !.args = normalizeInputs(ball, aiPaddle),
                            !.wrote = second.v.net # network,
                            !.action = first.v.action,
                            !.again = second.v.action]
    /\ clicks' = clicks + 1
    /\ UNCHANGED << impl, state, keys, playerPaddle, aiPaddle, ball,
                    trainingData, halted, recorded, ticks, rare, pongVars, bodies, slowVars >>

\* await NeuralNetworkAI.predict(paddle, ball, gameState), run to its end
predictAwaited(nn, b, g, draw) ==
    LET pr == predictStart(nn, b, g, draw)
    IN  IF pr.done
        THEN [action |-> pr.action, explored |-> pr.explored, nn |-> pr.nn]
        ELSE LET pf == predictFinish(nn, pr.features)
             IN  [action |-> pf.action, explored |-> FALSE, nn |-> pf.nn]

\* OvercomplicatedPong.initialize(): await this.neuralNetworkAI.loadModel(),
\* which is over before the first click
LoadModel ==
    /\ impl = "pong" /\ last = NoOp /\ gameState.state = "menu"
    /\ \E stored \in StoredDraws :
         /\ neuralNetworkAI' = loadModel(neuralNetworkAI, stored)
         /\ last' = [NoOp EXCEPT
                       !.op = "loadModel",
                       !.args = IF neuralNetworkAI.useFallback THEN <<>>
                                ELSE << stored.inputShape, stored.units >>,
                       !.changed = neuralNetworkAI' # neuralNetworkAI]
    /\ UNCHANGED << impl, gameVars, bodies, slowVars, ticks, rare, clicks, gameState, balls,
                    paddle2, pending >>

\* NeuralNetworkAI.predict(paddle, ball, gameState) of src/audio-system.js
\* called and awaited twice in a row
PongPredictTwice ==
    /\ impl = "pong" /\ clicks < MaxClicks
    /\ gameState.state = "playing"
    /\ \E d1 \in DrawsOf(neuralNetworkAI) :
       LET first == predictAwaited(neuralNetworkAI, balls[1], gameState, d1)
       IN  \E d2 \in DrawsOf(first.nn) :
           LET second == predictAwaited(first.nn, balls[1], gameState, d2)
           IN  /\ neuralNetworkAI' = second.nn
               /\ last' = [NoOp EXCEPT
                             !.op = "predictTwice", !.decided = TRUE,
                             !.args = getStateRepresentation(balls[1], gameState),
                             !.explored = first.explored \/ second.explored,
                             !.action = first.action,
                             !.again = second.action]
    /\ clicks' = clicks + 1
    /\ UNCHANGED << impl, gameVars, bodies, slowVars, ticks, rare, gameState, balls, paddle2,
                    pending >>

\* frames of src/js explored beside the direct calls
MaxTicksCalls == 30

TickCalls == Update(MaxTicksCalls, 0, {<<1, Scale + Scale \div 2>>})

InitCalls ==
    \/ impl = "modules" /\ InitGame
    \/ InitPong

NextCalls ==
    \/ Start
    \/ TickCalls
    \/ ForwardPassCall
    \/ PredictTwice
    \/ Dispose
    \/ StartGame
    \/ Escape
    \/ FrameTick
    \/ Resolve
    \/ PongPredictTwice
    \/ LoadModel

SpecCalls == InitCalls /\ [][NextCalls]_vars

(***************************************************************************)
(* AIController of src/js/ai.js trained on one sample at a time            *)
(***************************************************************************)

\* how many ticks a run with single-sample training plays
MaxTicksTrain == 4

\* the reward factors reward() and punish() hand to trainOnRecentData
RewardFactors == {Scale, -(Scale \div 2)}

\* (data.action[i] - output[i]) * rewardFactor of trainOnRecentData
sampleError(action, output, rewardFactor) ==
    [i \in 1..ActionCount |-> Mul(Fix(OneHot(action)[i]) - output[i], rewardFactor)]

\* one pass of the for-of loop of trainOnRecentData, over the sample that
\* recordDecision would record now for action: forwardPass, the error, then
\* updateWeights; last.out keeps the error that the pass over the output
\* layer hands to the layer before it
TrainSample ==
    /\ impl = "modules" /\ clicks < MaxClicks
    /\ \E action \in -1..1, rewardFactor \in RewardFactors :
       \E inputs \in {normalizeInputs(ball, aiPaddle)} :
       \E fp \in {forwardPass(network, inputs)} :
       \E error \in {sampleError(action, fp.v.output, rewardFactor)} :
       \E upd \in {updateWeights(fp.v.net, fp.v.activations, error)} :
         /\ fp.error = "" /\ upd.error = ""
         /\ network' = upd.v
         /\ last' = [NoOp EXCEPT
                       !.op = "trainSample", !.args = inputs,
                       !.action = action, !.factor = rewardFactor,
                       !.out = handedDown(network[Len(network)], Len(network),
                                          fp.v.activations, error,
                                          upd.v[Len(network)])]
    /\ clicks' = clicks + 1
    /\ UNCHANGED << impl, state, keys, playerPaddle, aiPaddle, ball,
                    trainingData, halted, recorded, ticks, rare, pongVars, bodies, slowVars >>

TickTrain == Update(MaxTicksTrain, 0, {<<1, Scale + Scale \div 2>>})

InitTrain == impl = "modules" /\ InitGame

NextTrain ==
    \/ Start
    \/ TickTrain
    \/ TrainSample

SpecTrain == InitTrain /\ [][NextTrain]_vars

(***************************************************************************)
(* predict and predictBallY of src/js/ai.js called directly                *)
(***************************************************************************)

\* how many ticks a run with direct predictions plays
MaxTicksPredict == 30

\* the balls handed to predictBallY: the ball of the game, the same ball at
\* other heights, with other speeds, and at a Huge height
BallDraws ==
    {[ball EXCEPT !.y = y, !.speedX = sx, !.speedY = sy] :
       y \in {ball.y, 0, Huge},
       sx \in {ball.speedX, Fix(1)},
       sy \in {ball.speedY, -Fix(12), Fix(12)}}

\* predictBallY(ball, paddle.x, canvasWidth, canvasHeight)
PredictBallYCall ==
    /\ impl = "modules" /\ clicks < MaxClicks
    /\ \E b \in BallDraws :
       \E predicted \in {predictBallY(b, aiPaddle.x)} :
         last' = [NoOp EXCEPT
                    !.op = "predictBallY",
                    !.args = << b.x, b.y, b.speedX, b.speedY >>,
                    !.out = IF predicted.hangs THEN <<>> ELSE << predicted.y >>,
                    !.error = IF predicted.hangs THEN "hang" ELSE ""]
    /\ clicks' = clicks + 1
    /\ UNCHANGED << impl, state, keys, playerPaddle, aiPaddle, ball, network,
                    trainingData, halted, recorded, ticks, rare, pongVars, bodies, slowVars >>

\* the network of a second AIController, built from other random draws: a
\* seed that none of the layers of the first network uses
otherNetwork == createNetwork(NumSeeds + Len(createNetwork(NumSeeds)) + 1)

\* predict(ball, paddle, w, h) asked of two controllers about the same ball
\* and paddle: last.action is the answer of the game's controller,
\* last.again that of the second one
PredictPair ==
    /\ impl = "modules" /\ clicks < MaxClicks
    /\ \E first \in {predict(network, ball, aiPaddle)} :
       \E second \in {predict(otherNetwork, ball, aiPaddle)} :
         /\ first.error = "" /\ second.error = ""
         /\ network' = first.v.net
         /\ last' = [NoOp EXCEPT
                       !.op = "predictPair", !.decided = TRUE,
                       !.action = first.v.action,
                       !.again = second.v.action]
    /\ clicks' = clicks + 1
    /\ UNCHANGED << impl, state, keys, playerPaddle, aiPaddle, ball,
                    trainingData, halted, recorded, ticks, rare, pongVars, bodies, slowVars >>

TickPredict == Update(MaxTicksPredict, 0, {<<1, Scale + Scale \div 2>>})

InitPredict == impl = "modules" /\ InitGame

NextPredict ==
    \/ Start
    \/ KeyDown
    \/ KeyUp
    \/ TickPredict
    \/ PredictBallYCall
    \/ PredictPair

SpecPredict == InitPredict /\ [][NextPredict]_vars

(***************************************************************************)
(* Vector2D, PhysicsBody and CollisionSystem of src/audio-system.js, called *)
(* directly on two balls                                                   *)
(***************************************************************************)

\* how many direct calls one run makes
MaxCalls == 3

\* by how far a fixed-point result may differ from the JavaScript number:
\* the square root of a long vector is taken in coarser units
Tolerance == 20

\* a / b of two fixed-point numbers, rounded towards zero
Div(a, b) ==
    IF (a < 0) = (b < 0) THEN (Abs(a) * Scale) \div Abs(b)
    ELSE -((Abs(a) * Scale) \div Abs(b))

\* Infinity and -Infinity of JavaScript, next to the NaN of the model
Infinity == -(NaN + 1)

Finite(x) == x \notin {NaN, Infinity, -Infinity}

\* a + b of two JavaScript Numbers
AddN(a, b) ==
    IF a = NaN \/ b = NaN THEN NaN
    ELSE IF ~Finite(a) THEN (IF b = -a THEN NaN ELSE a)
    ELSE IF ~Finite(b) THEN b
    ELSE a + b

\* a * b of two JavaScript Numbers
MulN(a, b) ==
    IF a = NaN \/ b = NaN THEN NaN
    ELSE IF ~Finite(a) \/ ~Finite(b)
    THEN (IF a = 0 \/ b = 0 THEN NaN
          ELSE IF (a < 0) = (b < 0) THEN Infinity ELSE -Infinity)
    ELSE Mul(a, b)

\* a / b of two JavaScript Numbers, b finite: x / 0 is an infinity and
\* 0 / 0 is NaN
DivN(a, b) ==
    IF a = NaN \/ b = NaN THEN NaN
    ELSE IF b = 0
    THEN (IF a = 0 THEN NaN ELSE IF a > 0 THEN Infinity ELSE -Infinity)
    ELSE IF ~Finite(a) THEN (IF (a < 0) = (b < 0) THEN Infinity ELSE -Infinity)
    ELSE Div(a, b)

\* Math.sqrt of a natural number, rounded down
MathSqrt(n) ==
    LET h == CHOOSE k \in 0..447 :
                 /\ (100 * k) * (100 * k) <= n
                 /\ (100 * (k + 1)) * (100 * (k + 1)) > n
    IN  CHOOSE r \in (100 * h)..(100 * h + 99) :
            r * r <= n /\ (r + 1) * (r + 1) > n

\* new Vector2D(x, y)
Vector2D(x, y) == [x |-> x, y |-> y]

add(v, w) == Vector2D(v.x + w.x, v.y + w.y)

subtract(v, w) == Vector2D(v.x - w.x, v.y - w.y)

multiply(v, scalar) == Vector2D(Mul(v.x, scalar), Mul(v.y, scalar))

divide(v, scalar) ==
    IF scalar = 0 THEN Vector2D(0, 0)
    ELSE Vector2D(Div(v.x, scalar), Div(v.y, scalar))

dot(v, w) == Mul(v.x, w.x) + Mul(v.y, w.y)

\* Math.sqrt(x * x + y * y); a long vector is measured in coarser units so
\* that the squares stay within the integers of the model
magnitude(v) ==
    LET m == Max2(Abs(v.x), Abs(v.y))
        s == IF m <= 30 * Scale THEN 1
             ELSE IF m <= 300 * Scale THEN 10 ELSE 100
    IN  s * MathSqrt((Abs(v.x) \div s) * (Abs(v.x) \div s)
                     + (Abs(v.y) \div s) * (Abs(v.y) \div s))

normalize(v) ==
    LET mag == Const(v, magnitude)
    IN  IF mag = 0 THEN Vector2D(0, 0) ELSE divide(v, mag)

\* a limit that returns the vector as it is
limitOff(v, max) == Vector2D(v.x, v.y)

limit(v, max) ==
    LET mag == Const(v, magnitude)
    IN  IF mag > max THEN multiply(normalize(v), max) ELSE Vector2D(v.x, v.y)

\* distanceTo(v)
distanceTo(v, w) == magnitude(subtract(v, w))

\* GAME_CONFIG.physics
gravity == Scale \div 2
airResistance == Scale \div 1000
friction == (98 * Scale) \div 100
elasticity == 1 * Scale
maxVelocity == 30 * Scale
rotationalDamping == (99 * Scale) \div 100

\* GAME_CONFIG.ball.radius and GAME_CONFIG.canvas.height
ballRadius == 8 * Scale
canvasHeight == 800 * Scale

\* new PhysicsBody(x, y, mass), with the radius the Ball constructor adds
NewPhysicsBody(x, y, mass) ==
    [position |-> Vector2D(x, y), velocity |-> Vector2D(0, 0),
     acceleration |-> Vector2D(0, 0), force |-> Vector2D(0, 0),
     mass |-> mass, inverseMass |-> IF mass > 0 THEN Div(Scale, mass) ELSE 0,
     restitution |-> elasticity, friction |-> friction,
     angularVelocity |-> 0, angularAcceleration |-> 0, torque |-> 0,
     rotation |-> 0, momentOfInertia |-> mass * 10,
     isStatic |-> FALSE, affectedByGravity |-> FALSE, affectedByDrag |-> TRUE,
     radius |-> ballRadius]

\* an applyForce that acts at once on the velocity as well
applyForceNow(body, force) ==
    [body EXCEPT !.force = add(body.force, force),
                 !.velocity = add(body.velocity, multiply(force, body.inverseMass))]

\* PhysicsBody.applyForce(force)
applyForce(body, force) == [body EXCEPT !.force = add(body.force, force)]

\* PhysicsBody.applyTorque(torque)
applyTorque(body, torque) ==
    IF body.isStatic THEN body ELSE [body EXCEPT !.torque = body.torque + torque]

\* PhysicsBody.setVelocity(vx, vy)
setVelocity(body, vx, vy) == [body EXCEPT !.velocity = Vector2D(vx, vy)]

\* the velocity after the integration: acceleration, drag, friction, limit
integrate(body, acceleration, deltaTime) ==
    LET moved == add(body.velocity, multiply(acceleration, deltaTime))
        dragged == IF body.affectedByDrag
                   THEN add(moved, multiply(moved, -airResistance))
                   ELSE moved
    IN  limit(multiply(dragged, body.friction), maxVelocity)

\* PhysicsBody.update(deltaTime)
bodyUpdate(body, deltaTime) ==
    IF body.isStatic THEN body
    ELSE LET a0 == multiply(body.force, body.inverseMass)
             acceleration == IF body.affectedByGravity
                             THEN Vector2D(a0.x, a0.y + gravity) ELSE a0
             velocity == Const(body, LAMBDA b : integrate(b, acceleration, deltaTime))
             angularAcceleration == DivN(body.torque, body.momentOfInertia)
             angularVelocity == MulN(AddN(body.angularVelocity,
                                          MulN(angularAcceleration, deltaTime)),
                                     rotationalDamping)
         IN  [body EXCEPT
                 !.acceleration = acceleration,
                 !.velocity = velocity,
                 !.position = add(body.position, multiply(velocity, deltaTime)),
                 !.angularAcceleration = angularAcceleration,
                 !.angularVelocity = angularVelocity,
                 !.rotation = AddN(body.rotation, MulN(angularVelocity, deltaTime)),
                 !.force = Vector2D(0, 0),
                 !.torque = 0]

\* where the two bodies are constructed: in the middle of the field, the
\* second ball overlapping the first, or the first ball at the top wall
PositionDraws == {Vector2D(600 * Scale, 400 * Scale), Vector2D(600 * Scale, 5 * Scale)}

\* the forces of the force fields and of the spin
ForceDraws == {Vector2D(Scale, 0), Vector2D(-12 * Scale, 16 * Scale)}

\* the velocities the balls are launched with
VelocityDraws == {Vector2D(0, 0), Vector2D(5 * Scale, 3 * Scale),
                  Vector2D(5 * Scale, -3 * Scale), Vector2D(-24 * Scale, -32 * Scale)}

\* deltaTime of the game loop: at most 3 frames of 16.67 ms
DeltaDraws == {Scale \div 2, Scale, 3 * Scale}

\* the mass handed to the constructor of the second body: that of a ball,
\* or none
MassDraws == {Scale, 0}

\* a ball constructed by new Ball(x, y) and a second body constructed by
\* new PhysicsBody(x, y, mass)
InitPhysics ==
    /\ impl = "physics"
    /\ IdleGame
    /\ gameState = <<>> /\ balls = <<>> /\ paddle2 = <<>>
    /\ neuralNetworkAI = <<>> /\ pending = <<>>
    /\ timers = <<>> /\ paddle1 = <<>>
    /\ \E p \in PositionDraws, mass \in MassDraws :
         bodies = << NewPhysicsBody(p.x, p.y, Scale),
                     NewPhysicsBody(p.x + 6 * Scale, p.y + 8 * Scale, mass) >>

\* the variables the physics calls leave alone
idleVars == << impl, gameVars, ticks, rare, pongVars, slowVars >>

\* body.applyForce(force)
ApplyForce ==
    /\ impl = "physics" /\ clicks < MaxCalls
    /\ \E i \in 1..2, force \in ForceDraws :
         /\ bodies' = [bodies EXCEPT ![i] = applyForce(@, force)]
         /\ last' = [NoOp EXCEPT !.op = "applyForce", !.args = << i >>]
    /\ clicks' = clicks + 1
    /\ UNCHANGED idleVars

\* body.applyTorque(torque)
ApplyTorque ==
    /\ impl = "physics" /\ clicks < MaxCalls
    /\ bodies' = [bodies EXCEPT ![1] = applyTorque(@, 5 * Scale)]
    /\ last' = [NoOp EXCEPT !.op = "applyTorque", !.args = << 1 >>]
    /\ clicks' = clicks + 1
    /\ UNCHANGED idleVars

\* body.setVelocity(vx, vy)
SetVelocity ==
    /\ impl = "physics" /\ clicks < MaxCalls
    /\ \E i \in 1..2, v \in VelocityDraws :
         /\ bodies' = [bodies EXCEPT ![i] = setVelocity(@, v.x, v.y)]
         /\ last' = [NoOp EXCEPT !.op = "setVelocity", !.args = << i >>]
    /\ clicks' = clicks + 1
    /\ UNCHANGED idleVars

\* applyPowerUpEffect('gravity'): the ball's gravity flag flips
GravityPowerUp ==
    /\ impl = "physics" /\ clicks < MaxCalls
    /\ bodies' = [bodies EXCEPT ![1].affectedByGravity = ~@]
    /\ last' = [NoOp EXCEPT !.op = "gravity", !.args = << 1 >>]
    /\ clicks' = clicks + 1
    /\ UNCHANGED idleVars

\* body.update(deltaTime)
BodyUpdate ==
    /\ impl = "physics" /\ clicks < MaxCalls
    /\ \E i \in 1..2, deltaTime \in DeltaDraws :
         /\ bodies' = [bodies EXCEPT ![i] = bodyUpdate(@, deltaTime)]
         /\ last' = [NoOp EXCEPT !.op = "bodyUpdate", !.args = << i, deltaTime >>]
    /\ clicks' = clicks + 1
    /\ UNCHANGED idleVars

\* MathUtil.clamp(value, min, max)
clamp(value, min, max) == Max2(min, Min2(max, value))

\* GAME_CONFIG.paddle.width, GAME_CONFIG.paddle.height and
\* GAME_CONFIG.canvas.width
paddleWidth == 15 * Scale
paddleHeight == 100 * Scale
canvasWidth == 1200 * Scale

\* the closest point of the rectangle to the centre of the ball
closestPoint(position, rect) ==
    Vector2D(clamp(position.x, rect.x, rect.x + rect.width),
             clamp(position.y, rect.y, rect.y + rect.height))

\* CollisionSystem.checkCircleRect(circle, rect): the distance of the centre
\* to the closest point is below the radius
checkCircleRect(circle, rect) ==
    magnitude(subtract(circle.position, closestPoint(circle.position, rect)))
        < circle.radius

\* CollisionSystem.checkCircleCircle(c1, c2)
checkCircleCircle(c1, c2) ==
    distanceTo(c1.position, c2.position) < c1.radius + c2.radius

\* a contact normal without the default for a zero vector
contactNormalRaw(position, closest) == normalize(subtract(position, closest))

\* the contact normal of resolveCircleRect: (1, 0) when the centre of the
\* ball is the closest point
contactNormal(position, closest) ==
    LET normal == normalize(subtract(position, closest))
    IN  IF magnitude(normal) = 0 THEN [normal EXCEPT !.x = Scale] ELSE normal

\* an impulse of (2 + e) times the approach velocity
impulseScalarStrong(e, velAlongNormal) == Mul(-(2 * Scale + e), velAlongNormal)

\* j = -(1 + e) * velAlongNormal
impulseScalar(e, velAlongNormal) == Mul(-(Scale + e), velAlongNormal)

\* CollisionSystem.resolveCircleRect(ball, rect, rectVel): the ball after the
\* call and the collision returned (hit is FALSE for undefined)
resolveCircleRect(b, rect, rectVel) ==
    LET closest == closestPoint(b.position, rect)
        normal == Const(closest, LAMBDA c : contactNormal(b.position, c))
        relVel == subtract(b.velocity, rectVel)
        velAlongNormal == dot(relVel, normal)
        impulse == multiply(normal, impulseScalar(b.restitution, velAlongNormal))
        offsetY == b.position.y - (rect.y + rect.height \div 2)
        separation == b.radius - magnitude(normal)
    IN  IF velAlongNormal > 0
        THEN [ball |-> b, hit |-> FALSE, normal |-> normal]
        ELSE [ball |-> [b EXCEPT
                          !.velocity = add(b.velocity, impulse),
                          !.angularVelocity = AddN(@, offsetY \div 100),
                          !.position = add(b.position,
                                           multiply(normal, separation))],
              hit |-> TRUE, normal |-> normal]

\* CollisionSystem.resolveCircleCircle(c1, c2): the two balls after the call
resolveCircleCircle(c1, c2) ==
    LET normal == Const(subtract(c1.position, c2.position), normalize)
        relVel == subtract(c1.velocity, c2.velocity)
        velAlongNormal == dot(relVel, normal)
        e == Min2(c1.restitution, c2.restitution)
        j == impulseScalar(e, velAlongNormal)
        impulse == multiply(normal, Div(j, c1.inverseMass + c2.inverseMass))
        overlap == (c1.radius + c2.radius) - distanceTo(c1.position, c2.position)
        separation == multiply(normal, overlap \div 2)
    IN  IF velAlongNormal > 0 THEN << c1, c2 >>
        ELSE << [c1 EXCEPT
                   !.velocity = add(c1.velocity, multiply(impulse, c1.inverseMass)),
                   !.position = add(c1.position, separation)],
                [c2 EXCEPT
                   !.velocity = subtract(c2.velocity, multiply(impulse, c2.inverseMass)),
                   !.position = subtract(c2.position, separation)] >>

\* a wall that negates the normal component whatever its sign
bounceNegate(vy, restitution) == Mul(-vy, restitution)

\* Math.abs(ball.velocity.y) * ball.restitution
bounce(vy, restitution) == Mul(Abs(vy), restitution)

\* the top and bottom walls of checkBallWallCollision(ball)
wallCollision(b) ==
    LET top == IF b.position.y - b.radius < 0
               THEN [b EXCEPT !.position.y = b.radius,
                                 !.velocity.y = bounce(@, b.restitution)]
               ELSE b
    IN  IF top.position.y + top.radius > canvasHeight
        THEN [top EXCEPT !.position.y = canvasHeight - top.radius,
                         !.velocity.y = -bounce(@, top.restitution)]
        ELSE top

\* Paddle.getBounds() of a paddle whose box has its closest point at the
\* given offset from the centre of the ball: the centre of the paddle, its
\* right edge, its top edge and its lower right corner
RectDraws(position) ==
    { [x |-> position.x - paddleWidth \div 2, y |-> position.y - paddleHeight \div 2,
       width |-> paddleWidth, height |-> paddleHeight],
      [x |-> position.x - 3 * Scale - paddleWidth, y |-> position.y - paddleHeight \div 2,
       width |-> paddleWidth, height |-> paddleHeight],
      [x |-> position.x - paddleWidth \div 2, y |-> position.y + 4 * Scale,
       width |-> paddleWidth, height |-> paddleHeight],
      [x |-> position.x - 3 * Scale - paddleWidth, y |-> position.y - 4 * Scale - paddleHeight,
       width |-> paddleWidth, height |-> paddleHeight] }

\* paddle.velocity: a paddle at rest or moving at its speed
RectVelDraws == {Vector2D(0, 0), Vector2D(0, 8 * Scale)}

\* checkBallPaddleCollision(ball, paddle) up to the collision returned
ResolveCircleRect ==
    /\ impl = "physics" /\ clicks < MaxCalls
    /\ \E rect \in RectDraws(bodies[1].position), rectVel \in RectVelDraws :
         /\ checkCircleRect(bodies[1], rect)
         /\ \E r \in {resolveCircleRect(bodies[1], rect, rectVel)} :
              /\ bodies' = [bodies EXCEPT ![1] = r.ball]
              /\ last' = [NoOp EXCEPT
                            !.op = "resolveCircleRect",
                            !.args = << rect.x, rect.y, rectVel.x, rectVel.y >>,
                            !.changed = r.hit,
                            !.out = << r.normal.x, r.normal.y >>]
    /\ clicks' = clicks + 1
    /\ UNCHANGED idleVars

\* checkBallBallCollision(ball1, ball2)
ResolveCircleCircle ==
    /\ impl = "physics" /\ clicks < MaxCalls
    /\ checkCircleCircle(bodies[1], bodies[2])
    /\ bodies' = resolveCircleCircle(bodies[1], bodies[2])
    /\ last' = [NoOp EXCEPT !.op = "resolveCircleCircle"]
    /\ clicks' = clicks + 1
    /\ UNCHANGED idleVars

\* checkBallWallCollision(ball) of a ball between the goal lines
WallCollision ==
    /\ impl = "physics" /\ clicks < MaxCalls
    /\ bodies[1].position.x - bodies[1].radius >= 0
    /\ bodies[1].position.x + bodies[1].radius <= canvasWidth
    /\ bodies' = [bodies EXCEPT ![1] = wallCollision(@)]
    /\ last' = [NoOp EXCEPT
                  !.op = "wallCollision",
                  !.args = << bodies[1].velocity.x, bodies[1].velocity.y >>,
                  !.changed = bodies[1].position.y - bodies[1].radius < 0]
    /\ clicks' = clicks + 1
    /\ UNCHANGED idleVars

NextPhysics ==
    \/ ApplyForce
    \/ ApplyTorque
    \/ SetVelocity
    \/ GravityPowerUp
    \/ BodyUpdate
    \/ ResolveCircleRect
    \/ ResolveCircleCircle
    \/ WallCollision

SpecPhysics == InitPhysics /\ [][NextPhysics]_vars

\* a match against the fallback AI (TensorFlow.js not loaded)
InitPongMulti == InitPong /\ neuralNetworkAI.useFallback

NextPongMulti ==
    \/ StartGame
    \/ FrameMulti
    \/ Escape

SpecPongMulti == InitPongMulti /\ [][NextPongMulti]_vars

(***************************************************************************)
(* The time-slow key of src/audio-system.js and its restore timers.  Time  *)
(* is counted in frames of the game loop (ticks).                          *)
(***************************************************************************)

\* frames a run with the time-slow key is followed for
MaxFramesSlow == 100

\* milliseconds between two frames: the longest frame that gameLoop counts
\* in full (deltaTime is capped at 3 frames of 16.67 ms)
FrameMs == 50

\* the delay handleTimeSlowKey gives to setTimeout, in milliseconds
SlowMs == 2000

\* the same delay in frames
SlowFrames == SlowMs \div FrameMs

\* the energy handleTimeSlowKey asks of paddle1.useQuantumEnergy
SlowCost == 25

\* the keydown listener of setupInput for 'e': handleTimeSlowKey()
TimeSlowKey ==
    /\ impl = "pong" /\ clicks < MaxClicks
    /\ clicks' = clicks + 1
    /\ IF gameState.state = "playing" /\ paddle1.quantumEnergy >= Fix(SlowCost)
       THEN /\ paddle1' = [paddle1 EXCEPT !.quantumEnergy = @ - Fix(SlowCost)]
            /\ gameState' = [gameState EXCEPT !.timeScale = Scale \div 2]
            /\ timers' = Append(timers, [due |-> ticks + SlowFrames,
                                         set |-> ticks])
            /\ last' = [NoOp EXCEPT !.op = "timeSlowKey", !.changed = TRUE]
       ELSE /\ UNCHANGED << paddle1, gameState, timers >>
            /\ last' = [NoOp EXCEPT !.op = "timeSlowKey"]
    /\ UNCHANGED << impl, gameVars, bodies, ticks, rare, balls, paddle2,
                    neuralNetworkAI, pending >>

\* a timer whose delay has passed
Due(k) == timers[k].due <= ticks

\* the timer that runs next: the earliest due, the first set among equals
NextTimer ==
    CHOOSE k \in 1..Len(timers) :
       /\ Due(k)
       /\ \A j \in 1..Len(timers) :
            \/ timers[j].due > timers[k].due
            \/ timers[j].due = timers[k].due /\ j >= k

\* the callback of a restore timer runs: this.gameState.timeScale = 1.0
TimerFires ==
    /\ impl = "pong"
    /\ \E k \in 1..Len(timers) : Due(k)
    /\ gameState' = [gameState EXCEPT !.timeScale = Scale]
    /\ timers' = Without(timers, NextTimer)
    /\ last' = [NoOp EXCEPT !.op = "timer",
                            !.args = << timers[NextTimer].set >>]
    /\ UNCHANGED << impl, gameVars, bodies, ticks, rare, clicks, balls, paddle1,
                    paddle2, neuralNetworkAI, pending >>

\* a frame of the game loop; the timers that are due run before it
FrameSlow ==
    /\ \A k \in 1..Len(timers) : ~Due(k)
    /\ Frame(MaxFramesSlow, 0, FALSE, FALSE)

NextSlow ==
    \/ StartGame
    \/ FrameSlow
    \/ TimeSlowKey
    \/ TimerFires

SpecSlow == InitPongMulti /\ [][NextSlow]_vars

Init == impl = "modules" /\ InitGame

InitLegacy == impl = "legacy" /\ InitGame

NextLegacy ==
    \/ Start
    \/ Pause
    \/ Reset
    \/ ToggleQuantumMode
    \/ ToggleGlitchMode
    \/ KeyDown
    \/ KeyUp
    \/ LegacyUpdate

SpecLegacy == InitLegacy /\ [][NextLegacy]_vars

NextLong ==
    \/ Start
    \/ TickLong

SpecLong == Init /\ [][NextLong]_vars

Next ==
    \/ Start
    \/ Pause
    \/ Reset
    \/ ToggleQuantumMode
    \/ ToggleGlitchMode
    \/ KeyDown
    \/ KeyUp
    \/ Tick

Spec == Init /\ [][Next]_vars

(***************************************************************************)
(* Properties                                                              *)
(***************************************************************************)
\* C1: the training buffer never holds more than maxTrainingData samples, and
\* it holds exactly the most recently recorded samples, oldest first
C1_BufferIsMostRecent ==
    /\ Len(trainingData) <= maxTrainingData
    /\ trainingData = SliceLast(recorded, maxTrainingData)

\* more samples were recorded than the buffer holds: the oldest were evicted
C1_Witness == Len(recorded) > maxTrainingData + 1 /\ last.op = "update"


\* C2: every decision returned by a controller, the fallback's included, is
\* one of -1, 0 and 1
C2_ActionInRange ==
    last.decided =>
        /\ last.action \in {-1, 0, 1}
        /\ last.op = "predictTwice" => last.again \in {-1, 0, 1}

\* C3: a decision (predict and its forwardPass) leaves every weight and bias
\* as it was, and the network changes only in a frame whose reward() or
\* punish() got past the sample-count guards into trainOnRecentData
C3_WeightsChangeOnlyInTraining ==
    [][/\ last'.op = "update" => ~last'.wrote
       /\ network' # network => last'.op = "update" /\ last'.trained]_vars

\* a frame decided and then trained, and the training changed the network
C3_Witness ==
    last.op = "update" /\ ~last.wrote /\ last.trained /\ last.changed

\* C4: a frame starts a training call only if the same frame incremented a
\* score
C4_TrainingOnlyOnScore ==
    (last.op \in {"update", "frame"} /\ last.trained) => last.scored # "null"

\* C5: a frame that increments a score calls the training routine exactly
\* once, with a positive factor when it was the AI's score and with a smaller
\* factor when it was the player's
C5_FactorFollowsScore ==
    (last.op = "update" /\ last.scored # "null") =>
        /\ last.calls = 1
        /\ last.scored = "ai" => last.factor > 0
        /\ last.scored = "player" => last.factor < Scale

\* C6: reward() or punish() called with fewer than MinSamples samples in the
\* buffer changes neither the network nor the buffer and throws nothing
C6_UnderrunIsNoOp ==
    (last.op = "update" /\ last.calls = 1 /\ last.samples < MinSamples) =>
        ~last.changed /\ last.error = "" /\ ~halted

\* a point was scored with enough samples for trainOnRecentData's own guard
\* but not for reward's and punish's
C6_Witness ==
    /\ last.op = "update" /\ last.calls = 1
    /\ last.samples >= MinTrain /\ last.samples < MinSamples

\* C7 as stated: two decisions in a row on the same ball and paddle state,
\* with no training between them, are the same action
C7_SameAction ==
    last.op = "predictTwice" => last.again = last.action

\* C7: two decisions in a row on the same ball and paddle state, with no
\* training between them, are the same action unless one of the two calls
\* took the random action of epsilon-greedy exploration
C7_SameActionUnlessExplored ==
    (last.op = "predictTwice" /\ ~last.explored) => last.again = last.action

\* the model of NeuralNetworkAI decided twice in a row
C7_Witness ==
    /\ last.op = "predictTwice" /\ ~last.explored
    /\ impl = "pong" /\ ~neuralNetworkAI.useFallback

\* the shape rule of C8 for one network
ShapesConsistent(net) ==
    /\ Len(net) = 3
    /\ Len(net[1].weights) = InputCount
    /\ Len(net[Len(net)].biases) = ActionCount
    /\ \A k \in 1..Len(net) :
          /\ \A i \in 1..Len(net[k].weights) :
                Len(net[k].weights[i]) = Len(net[k].biases)
          /\ k < Len(net) => Len(net[k + 1].weights) = Len(net[k].biases)

\* C8: in every state of the controller each layer has as many weight rows
\* as the layer before has units, the first has InputCount rows and the last
\* has ActionCount units
C8_ShapesConsistent == impl = "modules" => ShapesConsistent(network)

\* the network has been trained at least once
C8_Witness ==
    last.op = "update" /\ last.trained /\ last.changed /\ last.error = ""
    /\ ticks > MinSamples

\* a result that looks like a forward pass's: ActionCount numbers
NormalOutput(out) ==
    /\ Len(out) = ActionCount
    /\ \A k \in 1..Len(out) : out[k] # NaN

\* C9: a forward pass on an input whose length is not the first layer's
\* input count throws or returns something that is not ActionCount numbers
C9_WrongLengthFails ==
    (last.op = "forwardPass" /\ Len(last.args) # InputCount) =>
        last.error # "" \/ ~NormalOutput(last.out)

\* C10: no forward pass starts while a training call is suspended, and no
\* two training calls are suspended at once
C10_AccessSerialized ==
    /\ ~last.overlap
    /\ Cardinality({k \in 1..Len(pending) : Training(pending[k])}) <= 1

\* C11: a frame leaves in the buffer what recordDecision left there, whether
\* or not it trained; the buffer gets shorter only in dispose(), which
\* empties it; and no other operation, Game.reset() included, touches it
C11_TrainingReadsBuffer ==
    [][/\ Len(recorded') > Len(recorded) =>
             trainingData' =
                 SliceLast(Append(trainingData, recorded'[Len(recorded')]),
                           maxTrainingData)
       /\ Len(trainingData') < Len(trainingData) =>
             last'.op = "dispose" /\ trainingData' = <<>>
       /\ last'.op \notin {"update", "dispose"} =>
             trainingData' = trainingData]_vars

\* a frame trained on a buffer that it left in place
C11_Witness ==
    /\ last.op = "update" /\ last.trained /\ last.changed
    /\ Len(trainingData) >= MinSamples

\* the rule of C12 for a frame of Game.update: one sample is appended, with
\* the features the decision was computed from and the one-hot encoding of
\* the action returned
RecordsDecision ==
    (last'.op = "update" /\ last'.error = "") =>
        /\ Len(recorded') = Len(recorded) + 1
        /\ trainingData' =
             SliceLast(Append(trainingData,
                              [inputs |-> normalizeInputs(ball, aiPaddle),
                               action |-> [k \in 1..ActionCount |->
                                             IF k = last'.action + 2
                                             THEN 1 ELSE 0]]),
                       maxTrainingData)

\* the rule of C12 for a frame of OvercomplicatedPong.update: one sample is
\* appended to the controller's memory, with the action decided
RemembersDecision ==
    last'.op = "frame" =>
        /\ Len(neuralNetworkAI'.memory) = Len(neuralNetworkAI.memory) + 1
        /\ last'.decided =>
             neuralNetworkAI'.memory[Len(neuralNetworkAI'.memory)].action
                 = last'.action

\* C12: every frame played appends exactly one sample to the controller's
\* buffer, holding the features of the frame's decision and its action
C12_EveryDecisionRecorded ==
    [][RecordsDecision /\ RemembersDecision]_vars

\* C12 for the frames of Game.update alone
C12_ModulesRecordEveryDecision == [][RecordsDecision]_vars

\* C17: the forward pass on an input vector of InputCount numbers returns
\* ActionCount numbers, none negative, that sum to 1 up to the rounding of
\* one unit per entry
C17_OutputIsDistribution ==
    (last.op = "forwardPass" /\ Len(last.args) = InputCount) =>
        /\ last.error = ""
        /\ Len(last.out) = ActionCount
        /\ \A k \in 1..Len(last.out) : last.out[k] # NaN /\ last.out[k] >= 0
        /\ Abs(SumSeq(last.out, Len(last.out)) - Scale) <= ActionCount

\* a forward pass was run on the features of a game in progress, and its
\* output is not the uniform distribution
C17_Witness ==
    /\ last.op = "forwardPass" /\ Len(last.args) = InputCount
    /\ last.args = normalizeInputs(ball, aiPaddle) /\ ticks > 0
    /\ last.out[1] # last.out[2]

\* C13: after every PhysicsBody.update(deltaTime), whatever forces were
\* accumulated before it, the magnitude of the body's velocity is at most
\* maxVelocity (30), up to the rounding of the fixed-point numbers
C13_VelocityClamped ==
    last.op = "bodyUpdate" =>
        magnitude(bodies[last.args[1]].velocity) <= maxVelocity + Tolerance

\* an update whose velocity the limit cut down to maxVelocity
C13_Witness ==
    /\ last.op = "bodyUpdate"
    /\ magnitude(bodies[last.args[1]].velocity) >= maxVelocity - Tolerance
    /\ ~bodies[last.args[1]].affectedByGravity
    /\ bodies[last.args[1]].acceleration # Vector2D(0, 0)

\* C20: applyForce changes the force accumulator of its body by the force
\* handed over and nothing else (position and velocity stay as they are),
\* and after every update(deltaTime) of a body its force and torque
\* accumulators are zero
C20_ForceOnlyAccumulates ==
    [][/\ last'.op = "applyForce" =>
             \E force \in ForceDraws :
                 bodies' = [bodies EXCEPT ![last'.args[1]].force = add(@, force)]
       /\ last'.op = "bodyUpdate" =>
             /\ bodies'[last'.args[1]].force = Vector2D(0, 0)
             /\ bodies'[last'.args[1]].torque = 0]_vars

\* an update that integrated an accumulated force and torque and reset them
C20_Witness ==
    /\ last.op = "bodyUpdate"
    /\ ~bodies[last.args[1]].affectedByGravity
    /\ bodies[last.args[1]].acceleration # Vector2D(0, 0)
    /\ bodies[last.args[1]].angularAcceleration # 0
    /\ bodies[last.args[1]].force = Vector2D(0, 0)

\* the velocity of the first ball relative to rectVel, along the normal n
alongNormal(velocity, rectVel, n) == dot(subtract(velocity, rectVel), n)

\* C14: with restitution <= 1, after resolveCircleRect and after
\* resolveCircleCircle the magnitude of the relative velocity along the
\* contact normal is at most the magnitude before the call times the
\* restitution, up to the rounding of the fixed-point numbers
C14_NormalVelocityNotAmplified ==
    [][/\ last'.op = "resolveCircleRect" =>
             LET n == Vector2D(last'.out[1], last'.out[2])
                 rectVel == Vector2D(last'.args[3], last'.args[4])
             IN  Abs(alongNormal(bodies'[1].velocity, rectVel, n))
                     <= Mul(Abs(alongNormal(bodies[1].velocity, rectVel, n)),
                            bodies[1].restitution) + Tolerance
       /\ last'.op = "resolveCircleCircle" =>
             LET n == normalize(subtract(bodies[1].position, bodies[2].position))
             IN  Abs(alongNormal(bodies'[1].velocity, bodies'[2].velocity, n))
                     <= Mul(Abs(alongNormal(bodies[1].velocity, bodies[2].velocity, n)),
                            Min2(bodies[1].restitution, bodies[2].restitution))
                        + Tolerance]_vars

\* a ball that approached a moving paddle along an oblique normal and leaves
\* it after resolveCircleRect
C14_Witness ==
    /\ last.op = "resolveCircleRect" /\ last.changed
    /\ last.out[1] # 0 /\ last.out[2] # 0
    /\ alongNormal(bodies[1].velocity, Vector2D(last.args[3], last.args[4]),
                   Vector2D(last.out[1], last.out[2])) > Scale

\* the velocities of scenario D
TowardsField == Vector2D(5 * Scale, 3 * Scale)
TowardsWall == Vector2D(5 * Scale, -3 * Scale)

\* C15: a ball with velocity (5, 3) colliding with the wall at y = 0 with
\* restitution 1.0 leaves the collision with velocity (5, -3)
C15_WallNegatesNormalComponent ==
    [][(/\ last'.op = "wallCollision" /\ last'.changed
        /\ bodies[1].restitution = Scale
        /\ bodies[1].velocity = TowardsField)
       => bodies'[1].velocity = TowardsWall]_vars

\* C15 as the code has it: the wall at y = 0 sends the ball into the field;
\* a ball that arrives with velocity (5, -3) leaves with (5, 3), tangential
\* component unchanged and normal component negated, and a ball that
\* already moves away from the wall with (5, 3) keeps that velocity
C15_WallSendsBallIntoField ==
    [][(/\ last'.op = "wallCollision" /\ last'.changed
        /\ bodies[1].restitution = Scale
        /\ bodies[1].velocity \in {TowardsField, TowardsWall})
       => bodies'[1].velocity = TowardsField]_vars

\* a ball that hit the wall at y = 0 with velocity (5, -3)
C15_Witness ==
    /\ last.op = "wallCollision" /\ last.changed
    /\ last.args = << TowardsWall.x, TowardsWall.y >>
    /\ bodies[1].velocity = TowardsField
    /\ bodies[1].position.y = bodies[1].radius

\* the box of the paddle handed to the last resolveCircleRect call
lastRect(l) ==
    [x |-> l.args[1], y |-> l.args[2], width |-> paddleWidth, height |-> paddleHeight]

\* C16: resolveCircleRect of a ball whose centre is the closest point of the
\* rectangle raises no error, its contact normal is (1, 0), and the
\* position and velocity of the ball afterwards are numbers; a ball at rest
\* on a paddle at rest stays at rest and is moved along (1, 0)
C16_DegenerateNormalDefaults ==
    [][(/\ last'.op = "resolveCircleRect"
        /\ closestPoint(bodies[1].position, lastRect(last')) = bodies[1].position)
       => /\ last'.error = ""
          /\ last'.out = << Scale, 0 >>
          /\ \A c \in {bodies'[1].position.x, bodies'[1].position.y,
                        bodies'[1].velocity.x, bodies'[1].velocity.y} :
                 c \in Int /\ c # NaN
          /\ (bodies[1].velocity = Vector2D(0, 0) /\ last'.args[4] = 0) =>
                 /\ bodies'[1].velocity = Vector2D(0, 0)
                 /\ bodies'[1].position =
                        add(bodies[1].position,
                            Vector2D(bodies[1].radius - Scale, 0))]_vars

\* a ball at rest in the centre of a paddle at rest after resolveCircleRect
C16_Witness ==
    /\ last.op = "resolveCircleRect" /\ last.changed
    /\ last.out = << Scale, 0 >>
    /\ last.args[1] = bodies[1].position.x - (bodies[1].radius - Scale)
                          - paddleWidth \div 2
    /\ last.args[2] = bodies[1].position.y - paddleHeight \div 2
    /\ last.args[4] = 0
    /\ bodies[1].velocity = Vector2D(0, 0)

\* C18: loading a saved model whose topology does not match (wrong input or
\* output dimensions) fails explicitly, and the mismatched model is never
\* installed as the active model of the controller
C18_MismatchNeverInstalled ==
    /\ (/\ last.op = "loadModel" /\ Len(last.args) = 2
        /\ last.args \notin {<< NoModel.inputShape, NoModel.units >>,
                             << inputShape, outputUnits >>})
       => last.error # ""
    /\ (impl = "pong" /\ ~neuralNetworkAI.useFallback)
       => neuralNetworkAI.model = NewModel

\* C19: the win score is 11 points: the match is in the state gameover as
\* soon as either score reaches 11 and no further point is scored, so that
\* neither score ever exceeds 11, also when several balls are in play in
\* the same frame
C19_ScoreNeverExceedsWinScore ==
    impl = "pong" =>
        /\ gameState.score1 <= winScore /\ gameState.score2 <= winScore
        /\ (gameState.score1 >= winScore \/ gameState.score2 >= winScore)
               => gameState.state = "gameover"

\* C21: update(deltaTime) of a body whose mass is <= 0 performs no
\* integration: position, velocity, rotation and angular velocity stay as
\* they were, and no NaN comes out of the zero moment of inertia
C21_MasslessBodyKeptStill ==
    [][(last'.op = "bodyUpdate" /\ bodies[last'.args[1]].mass <= 0) =>
          LET before == bodies[last'.args[1]]
              after == bodies'[last'.args[1]]
          IN  /\ after.position = before.position
              /\ after.velocity = before.velocity
              /\ after.rotation = before.rotation
              /\ after.angularVelocity = before.angularVelocity
              /\ Finite(after.rotation) /\ Finite(after.angularVelocity)]_vars

\* C22: when the relative velocity along the contact normal is >= 0 (the
\* bodies separate, or it is exactly zero), resolveCircleRect and
\* resolveCircleCircle leave velocity, position and angular velocity of the
\* bodies unchanged
C22_SeparatingContactSkipped ==
    [][/\ (/\ last'.op = "resolveCircleRect"
           /\ alongNormal(bodies[1].velocity,
                          Vector2D(last'.args[3], last'.args[4]),
                          Vector2D(last'.out[1], last'.out[2])) >= 0)
          => bodies' = bodies
       /\ (/\ last'.op = "resolveCircleCircle"
           /\ alongNormal(bodies[1].velocity, bodies[2].velocity,
                          normalize(subtract(bodies[1].position,
                                             bodies[2].position))) >= 0)
          => bodies' = bodies]_vars

\* after resolveCircleRect of a ball that overlapped a rectangle at rest and
\* moved into it, the circle-rectangle test of the two is false
RectPenetrationRemoved ==
    (/\ last'.op = "resolveCircleRect"
     /\ last'.args[3] = 0 /\ last'.args[4] = 0
     /\ alongNormal(bodies[1].velocity, Vector2D(0, 0),
                    Vector2D(last'.out[1], last'.out[2])) < 0)
    => ~checkCircleRect(bodies'[1], lastRect(last'))

\* after resolveCircleCircle of two overlapping circles that approached each
\* other, the circles are a sum of radii apart, up to rounding
CirclePenetrationRemoved ==
    (/\ last'.op = "resolveCircleCircle"
     /\ alongNormal(bodies[1].velocity, bodies[2].velocity,
                    normalize(subtract(bodies[1].position,
                                       bodies[2].position))) < 0)
    => distanceTo(bodies'[1].position, bodies'[2].position)
          >= bodies[1].radius + bodies[2].radius - Tolerance

\* C23: the positional correction removes the penetration: after
\* resolveCircleRect of a ball that overlaps a static rectangle and moves
\* into it the circle-rectangle test is false, and after resolveCircleCircle
\* of two overlapping approaching circles the circle-circle test is false
C23_CorrectionRemovesPenetration ==
    [][RectPenetrationRemoved /\ CirclePenetrationRemoved]_vars


\* the sample, the activations and the error of the training pass that has
\* just run, recomputed from the network before it
passActivations == forwardPass(network, last'.args).v.activations
passError ==
    sampleError(last'.action, forwardPass(network, last'.args).v.output,
                last'.factor)

\* C24: a training sample changes neither the bias of, nor any weight into, a
\* unit of a rectified-linear layer whose forward-pass activation was <= 0
C24_InactiveUnitsUntouched ==
    [][last'.op = "trainSample" =>
         \A l \in 1..Len(network) :
           network[l].activation = "relu" =>
             \A j \in 1..Len(network[l].biases) :
               passActivations[l + 1][j] <= 0 =>
                 /\ network'[l].biases[j] = network[l].biases[j]
                 /\ \A i \in 1..Len(network[l].weights) :
                      network'[l].weights[i][j] = network[l].weights[i][j]]_vars

\* C25: the error that the pass over the output layer hands to the layer
\* before it is the sum of the output errors weighted by the output layer's
\* weights as the forward pass of the sample used them
C25_ErrorThroughForwardWeights ==
    [][last'.op = "trainSample" =>
         last'.out = propagate(network[Len(network)],
                               passActivations[Len(network)], passError)]_vars


\* C26: ESC pressed in the game-over state returns the game to the menu;
\* pressed while playing it pauses, and pressed while paused it resumes
C26_EscapeLeavesGameOver ==
    [][last'.op = "escape" =>
         /\ gameState.state = "gameover" => gameState'.state = "menu"
         /\ gameState.state = "playing" => gameState'.state = "paused"
         /\ gameState.state = "paused" => gameState'.state = "playing"]_vars


\* C27: called on a finite ball state with speedX # 0, predictBallY ends,
\* and with a y inside the field
C27_PredictionEndsInsideField ==
    (/\ last.op = "predictBallY"
     /\ \A k \in 1..4 : Finite(last.args[k])
     /\ last.args[3] # 0)
    => /\ last.error = ""
       /\ last.out[1] >= 0
       /\ last.out[1] <= Fix(CanvasHeight)


\* what predict aims at for the ball and the AI paddle of the game: the
\* offset of the paddle from the predicted intercept
interceptDiff ==
    predictBallY(ball, aiPaddle.x).y - Fix(PaddleHeight) \div 2 - aiPaddle.y

\* the offset of the paddle from the centre of the field
centreDiff == Fix(CanvasHeight) \div 2 - aiPaddle.y - Fix(PaddleHeight) \div 2

Sign(x) == IF x > 0 THEN 1 ELSE IF x < 0 THEN -1 ELSE 0

\* C28: with the ball approaching, predict answers 0 within 5 units of the
\* target and otherwise 0 or the step towards the intercept; with the ball
\* moving away the answer is fixed by the paddle's offset from the centre,
\* the same for two controllers with different weights
C28_NetworkOnlyVetoes ==
    last.op = "predictPair" =>
      IF ball.speedX > 0
      THEN \A a \in {last.action, last.again} :
             IF Abs(interceptDiff) < Fix(5)
             THEN a = 0
             ELSE a \in {0, Sign(interceptDiff)}
      ELSE /\ last.action = last.again
           /\ last.action = IF Abs(centreDiff) < Fix(10) THEN 0
                            ELSE Sign(centreDiff)

\* two controllers with different weights answer differently about a ball
\* that approaches the paddle more than 5 units off the target: one of them
\* vetoes the step
C28_Witness ==
    /\ last.op = "predictPair"
    /\ ball.speedX > 0
    /\ Abs(interceptDiff) >= Fix(5)
    /\ last.action # last.again
    /\ network # otherNetwork


\* C29: while a match is in the state playing the array of balls is never
\* empty: a frame in which the only ball scores leaves that ball, reset to
\* the centre, and a frame in which several balls score leaves at least one
C29_BallsNeverEmpty ==
    /\ [](impl = "pong" /\ gameState.state = "playing" => Len(balls) >= 1)
    /\ [][last'.op = "frame" =>
            /\ Len(balls') >= 1
            /\ (Len(balls) = 1 /\ last'.points > 0) =>
                  /\ last'.points = 1
                  /\ Len(balls') = 1
                  /\ balls'[1].x = 0]_vars

\* two balls have scored in the same frame and the match goes on
C29_Witness ==
    /\ impl = "pong"
    /\ gameState.state = "playing"
    /\ last.op = "frame"
    /\ last.points >= 2
    /\ Len(balls) >= 1


\* the time-slow activations of the running match whose duration is not over
ActiveSlow ==
    {k \in 1..Len(timers) :
        timers[k].set >= gameState.matchStartTime /\ timers[k].due > ticks}

\* C30: timeScale is 0.5 or 1.0; while a time-slow activation of the running
\* match has not lasted its full duration the game is slowed, whatever
\* timers of earlier activations or of an earlier match have run meanwhile;
\* and with no timer pending timeScale is 1.0
C30_SlowLastsItsDuration ==
    impl = "pong" =>
      /\ gameState.timeScale \in {Scale \div 2, Scale}
      /\ (gameState.state = "playing" /\ ActiveSlow # {})
            => gameState.timeScale = Scale \div 2
      /\ timers = <<>> => gameState.timeScale = Scale

=============================================================================
